---- MODULE Spec2Model ----
(***************************************************************************)
(* Compliance workflow of the document management system: the Request and  *)
(* Crate life cycles (apps/requests/views.py, apps/documents/views.py),    *)
(* the audit ledger (apps/audit) and the digital signature ledger          *)
(* (apps/auth/models_signature.py).                                        *)
(***************************************************************************)
EXTENDS Integers, Sequences, FiniteSets, Bags, TLC

\* ---------------------------------------------------------------- bounds
MaxRequests == 3
MaxCrates == 1
MaxAudit == 6

\* ------------------------------------------------------------ master data
\* Accounts and the capability each one's role grants; a superuser has them all.
Users == {"user", "head", "store"}
Storages == {"S1", "S2"}
UnknownStorage == "S9"
NoStorage == "none"

\* Crate.barcode.  The text unit_code/dept_name/section_name/year/number is
\* kept as its prefix and its number; the number is printed with five
\* digits, so that the greatest barcode of a prefix, as text, is the one
\* with the greatest number.  A row that has no barcode yet holds the empty
\* one, and the row Crate.save inserts first holds a placeholder made of
\* "TEMP" and a value no other row has.
\* The documents of a call: the document numbers of its `documents` list,
\* which the serializers want non-empty and without a number given twice.
Submissions == {{"D1"}, {"D1", "D2"}}
NoDocuments == {}

Prefix == "MFG01/QC/Lab1/2025"
NoBarcode == [prefix |-> "", number |-> 0]
Placeholder(pk) == [prefix |-> "TEMP", number |-> pk]
Barcode(number) == [prefix |-> Prefix, number |-> number]
StorageInputs == Storages \cup {UnknownStorage}
NoUser == "none"
NoDate == "none"
\* timezone.now(): a timestamp; only its presence is kept.
timezone_now == "now"
NoId == 0

\* "clerk" has a custom role that grants nothing and is a member of the
\* group 'Section Head'.
RolePrivileges ==
  [user |-> {"create_request"}, head |-> {"approve_request"},
   store |-> {"allocate_storage"}, admin |-> {}, clerk |-> {}]

\* The names of the Django groups and of the role of each account.
RoleNames ==
  [user |-> {"User"}, head |-> {"Section Head"}, store |-> {"Store Head"},
   admin |-> {}, clerk |-> {"Section Head", "Clerk"}]

is_superuser(u) == u = "admin"

has_privilege(u, codename) ==
  IF is_superuser(u) THEN TRUE ELSE codename \in RolePrivileges[u]

has_role(u, role_name) == role_name \in RoleNames[u]

\* The permission classes: the privilege, or the role by its name.
CanCreateRequests(u) == has_privilege(u, "create_request") \/ has_role(u, "User")
CanApproveRequests(u) ==
  has_privilege(u, "approve_request") \/ has_role(u, "Section Head")
CanAllocateStorage(u) ==
  has_privilege(u, "allocate_storage") \/ has_role(u, "Store Head")

\* The permission class that guards the capability `codename`.
permission_class(u, codename) ==
  CASE codename = "create_request" -> CanCreateRequests(u)
    [] codename = "approve_request" -> CanApproveRequests(u)
    [] codename = "allocate_storage" -> CanAllocateStorage(u)

\* --------------------------------------------------------------- the state
VARIABLES
  crates,     \* Crate rows, by id: [status, storage]
  requests,   \* Request rows, by id
  sendbacks,  \* SendBack rows, as a bag
  audit,      \* AuditTrail rows (the ledger), as a bag of entries
  response,   \* the response of the last call: [op, code]
  signatures, \* DigitalSignature rows, by id
  created,    \* each DigitalSignature as create_signature returned it, by id
  sig_clock,  \* the clock behind auto_now_add, and the last id handed out
  verified,   \* the result of the last verify_integrity: [id, valid, message]
  workers,    \* the request-handling workers: the call each one is in
  accounts,   \* User rows, by username
  policies    \* the PasswordPolicy and the SessionPolicy rows, in id order

dbvars == <<crates, requests, sendbacks, audit>>
sigvars == <<signatures, created, sig_clock, verified>>
authvars == <<accounts, policies>>
vars == <<crates, requests, sendbacks, audit, response, signatures, created,
          sig_clock, verified, workers, accounts, policies>>

RequestTypes == {"Storage", "Withdrawal", "Destruction"}
StatusChoices ==
  {"Pending", "Sent Back", "Approved", "Issued", "Returned", "Rejected", "Completed"}
CrateStatus == {"Active", "Withdrawn", "Archived", "Destroyed"}

NewRequest(type, c, u) ==
  [request_type |-> type, crate |-> c, status |-> "Pending", withdrawn_by |-> u,
   approved_by |-> NoUser, approval_date |-> NoDate,
   allocated_by |-> NoUser, allocation_date |-> NoDate,
   issued_by |-> NoUser, issue_date |-> NoDate, return_date |-> NoDate]

\* A row that a DELETE has removed.  A primary key is never given twice: the
\* place of the row stays in the sequence of its table and holds this value.
DeletedCrate ==
  [status |-> "deleted", storage |-> NoStorage, barcode |-> NoBarcode,
   documents |-> NoDocuments]
DeletedRequest == [NewRequest("deleted", NoId, NoUser) EXCEPT !.status = "deleted"]

\* Crate.objects and Request.objects: the rows there are.
Crate_objects == {c \in DOMAIN crates : crates[c] # DeletedCrate}
Request_objects == {pk \in DOMAIN requests : requests[pk] # DeletedRequest}

AuditEntry(u, action, rid, cid, sid) ==
  [action |-> action, user |-> u, request_id |-> rid, crate_id |-> cid,
   storage_id |-> sid]

\* Model.save without the override: a persisted row is updated in place.
AuditTrail_save_unguarded(log, persisted, old, new) ==
  IF persisted THEN [raised |-> FALSE, log |-> (log (-) SetToBag({old})) (+) SetToBag({new})]
  ELSE [raised |-> FALSE, log |-> log (+) SetToBag({new})]

\* AuditTrail.save: an insert for a new row, ValueError for a persisted one.
AuditTrail_save(log, persisted, old, new) ==
  IF persisted THEN [raised |-> TRUE, log |-> log]
  ELSE [raised |-> FALSE, log |-> log (+) SetToBag({new})]

\* AuditTrail.delete: always ValueError.
AuditTrail_delete(log, old) == [raised |-> TRUE, log |-> log]

\* log_audit_event with the exception swallowed and the insert lost.
log_audit_event_dropped(log, u, action, rid, cid, sid) == log

\* log_audit_event: one insert into the ledger.
log_audit_event(log, u, action, rid, cid, sid) ==
  AuditTrail_save(log, FALSE, AuditEntry(u, action, rid, cid, sid),
                  AuditEntry(u, action, rid, cid, sid)).log

Respond(op, pk, code) ==
  response' = [op |-> op, code |-> code] /\ UNCHANGED <<sigvars, authvars, workers>>

\* A call that is refused: a response and nothing else.
Refuse(op, pk, code) == Respond(op, pk, code) /\ UNCHANGED dbvars

\* @require_digital_signature: the re-entered password, as the caller typed it.
Passwords == {"good", "bad", "missing"}
SignatureCode(pw) ==
  IF pw = "missing" THEN 400 ELSE IF pw = "bad" THEN 403 ELSE 200

Workers == {"w1", "w2"}

IdleWorker(calls) ==
  [pc |-> "idle", op |-> "none", user |-> NoUser, pk |-> NoId, storage |-> NoStorage,
   req |-> NewRequest("none", NoId, NoUser),
   crate |-> [status |-> "none", storage |-> NoStorage, barcode |-> NoBarcode,
              documents |-> NoDocuments],
   code |-> 200, calls |-> calls]

\* User rows.  password_aged: now is past password_changed_at plus the
\* expiry of the policy.
NewAccount ==
  [status |-> "Active", failed_login_attempts |-> 0, password_expired |-> FALSE,
   password_aged |-> FALSE]

NewAccounts == [u \in Users |-> NewAccount]

NoPolicies == [password |-> <<>>, session |-> <<>>]

Init ==
  /\ workers = [w \in Workers |-> IdleWorker(0)]
  /\ crates = <<>>
  /\ requests = <<>>
  /\ sendbacks = EmptyBag
  /\ audit = EmptyBag
  /\ response = [op |-> "none", code |-> 200]
  /\ signatures = <<>>
  /\ created = <<>>
  /\ sig_clock = 0
  /\ verified = [id |-> NoId, valid |-> TRUE, message |-> "none"]
  /\ accounts = NewAccounts
  /\ policies = NoPolicies

\* ------------------------------------------------------------ Crate.save
\* The number Crate.save gives a new crate: one more than the greatest
\* number among the other rows with the prefix, or 1 when there is none.
next_number(rows, pk) ==
  LET numbers == {rows[i].barcode.number :
                    i \in {j \in DOMAIN rows : j # pk /\ rows[j].barcode.prefix = Prefix}}
  IN IF numbers = {} THEN 1
     ELSE (CHOOSE n \in numbers : \A m \in numbers : m <= n) + 1

\* Crate.save of the instance `row` with primary key pk (NoId: not yet
\* inserted), run without another call in between: a barcode is made only
\* for an instance that has neither a barcode nor a primary key, and every
\* column of the instance is written.
Crate_save(rows, pk, row) ==
  IF row.barcode = NoBarcode /\ pk = NoId
  THEN Append(rows, [row EXCEPT !.barcode = Barcode(next_number(rows, Len(rows) + 1))])
  ELSE [rows EXCEPT ![pk] = row]

\* -------------------------------------------------------------- handlers
\* @require_digital_signature is commented out on this handler.  Its
\* serializer wants the digital_signature field to be there (400 without
\* it), and nothing compares what the field holds with the password.  The
\* crate gets a CrateDocument for each document of the call.
create_storage_request(u, pw, documents) ==
  IF ~permission_class(u, "create_request") THEN Refuse("create_storage", NoId, 403)
  ELSE IF pw = "missing" THEN Refuse("create_storage", NoId, 400)
  ELSE
    /\ Len(crates) < MaxCrates
    /\ Len(requests) < MaxRequests
    /\ BagCardinality(audit) < MaxAudit
    /\ crates' = Crate_save(crates, NoId, [status |-> "Active", storage |-> NoStorage,
                                           barcode |-> NoBarcode,
                                           documents |-> documents])
    /\ requests' = Append(requests, NewRequest("Storage", Len(crates) + 1, u))
    /\ audit' = log_audit_event(audit, u, "Created", Len(requests) + 1,
                                Len(crates) + 1, NoId)
    /\ Respond("create_storage", Len(requests) + 1, 201)
    /\ UNCHANGED sendbacks

approve_check_sent_back(u, pw, pk) ==
  IF ~permission_class(u, "approve_request") THEN 403
  ELSE IF SignatureCode(pw) # 200 THEN SignatureCode(pw)
  ELSE IF pk \notin Request_objects THEN 404
  ELSE IF requests[pk].status \notin {"Pending", "Sent Back"} THEN 400
  ELSE 200

\* The checks of approve_request, in the order the code makes them: the
\* permission classes, the password, the row, its status.
approve_check(u, pw, pk) ==
  IF ~permission_class(u, "approve_request") THEN 403
  ELSE IF SignatureCode(pw) # 200 THEN SignatureCode(pw)
  ELSE IF pk \notin Request_objects THEN 404
  ELSE IF requests[pk].status # "Pending" THEN 400
  ELSE 200

\* The fields approve_request sets on the instance it loaded.
approve_row(req, u) ==
  [req EXCEPT !.status = "Approved", !.approved_by = u,
              !.approval_date = timezone_now]

approve_request(u, pw, pk) ==
  IF approve_check(u, pw, pk) # 200 THEN Refuse("approve", pk, approve_check(u, pw, pk))
  ELSE
    /\ BagCardinality(audit) < MaxAudit
    /\ requests' = [requests EXCEPT ![pk] = approve_row(requests[pk], u)]
    /\ audit' = log_audit_event(audit, u, "Approved", pk, requests[pk].crate, NoId)
    /\ Respond("approve", pk, 200)
    /\ UNCHANGED <<crates, sendbacks>>

reject_check_any_status(u, pw, pk) ==
  IF ~permission_class(u, "approve_request") THEN 403
  ELSE IF SignatureCode(pw) # 200 THEN SignatureCode(pw)
  ELSE IF pk \notin Request_objects THEN 404
  ELSE 200

reject_check(u, pw, pk) ==
  IF ~permission_class(u, "approve_request") THEN 403
  ELSE IF SignatureCode(pw) # 200 THEN SignatureCode(pw)
  ELSE IF pk \notin Request_objects THEN 404
  ELSE IF requests[pk].status \notin {"Pending", "Sent Back"} THEN 400
  ELSE 200

reject_request(u, pw, pk) ==
  IF reject_check(u, pw, pk) # 200 THEN Refuse("reject", pk, reject_check(u, pw, pk))
  ELSE
    LET c == requests[pk].crate
        restore == requests[pk].request_type = "Withdrawal"
                   /\ crates[c].status = "Withdrawn"
        log1 == IF restore THEN log_audit_event(audit, u, "Updated", pk, c, NoId)
                ELSE audit
    IN /\ BagCardinality(audit) < MaxAudit
       /\ crates' = IF restore
                    THEN Crate_save(crates, c, [crates[c] EXCEPT !.status = "Active"])
                    ELSE crates
       /\ requests' = [requests EXCEPT ![pk].status = "Rejected"]
       /\ sendbacks' = sendbacks (+) SetToBag({[request |-> pk,
                              sendback_type |-> "Change Request", created_by |-> u]})
       /\ audit' = log_audit_event(log1, u, "Rejected", pk, c, NoId)
       /\ Respond("reject", pk, 200)

send_back_request(u, pw, pk) ==
  IF ~permission_class(u, "approve_request") THEN Refuse("send_back", pk, 403)
  ELSE IF SignatureCode(pw) # 200 THEN Refuse("send_back", pk, SignatureCode(pw))
  ELSE IF pk \notin Request_objects THEN Refuse("send_back", pk, 404)
  ELSE IF requests[pk].status \notin {"Pending", "Sent Back"}
       THEN Refuse("send_back", pk, 400)
  ELSE
    /\ BagCardinality(audit) < MaxAudit
    /\ requests' = [requests EXCEPT ![pk].status = "Sent Back"]
    /\ sendbacks' = sendbacks (+) SetToBag({[request |-> pk,
                           sendback_type |-> "Change Request", created_by |-> u]})
    /\ audit' = log_audit_event(audit, u, "Sent Back", pk, requests[pk].crate, NoId)
    /\ Respond("send_back", pk, 200)
    /\ UNCHANGED crates

allocate_check(u, pw, pk, storage) ==
  IF ~permission_class(u, "allocate_storage") THEN 403
  ELSE IF SignatureCode(pw) # 200 THEN SignatureCode(pw)
  ELSE IF pk \notin Request_objects THEN 404
  ELSE IF requests[pk].status # "Approved" THEN 400
  ELSE IF storage \notin Storages THEN 404
  ELSE 200

allocate_row_unfinished(req, u) ==
  [req EXCEPT !.allocation_date = timezone_now, !.allocated_by = u]

\* The fields allocate_storage sets on the instance it loaded.
allocate_row(req, u) ==
  [req EXCEPT !.allocation_date = timezone_now, !.allocated_by = u,
              !.status = "Completed"]

allocate_storage(u, pw, pk, storage) ==
  IF allocate_check(u, pw, pk, storage) # 200
  THEN Refuse("allocate", pk, allocate_check(u, pw, pk, storage))
  ELSE
    LET c == requests[pk].crate
    IN /\ BagCardinality(audit) < MaxAudit
       /\ crates' = Crate_save(crates, c, [crates[c] EXCEPT !.storage = storage])
       /\ requests' = [requests EXCEPT ![pk] = allocate_row(requests[pk], u)]
       /\ audit' = log_audit_event(audit, u, "Allocated", pk, c, storage)
       /\ Respond("allocate", pk, 200)
       /\ UNCHANGED sendbacks

create_withdrawal_check(u, pw, c) ==
  IF ~permission_class(u, "create_request") THEN 403
  ELSE IF SignatureCode(pw) # 200 THEN SignatureCode(pw)
  ELSE IF c \notin Crate_objects THEN 404
  ELSE IF crates[c].status \notin {"Active", "Archived"} THEN 400
  ELSE 200

create_withdrawal_request(u, pw, c) ==
  IF create_withdrawal_check(u, pw, c) # 200
  THEN Refuse("create_withdrawal", NoId, create_withdrawal_check(u, pw, c))
  ELSE
    LET rid == Len(requests) + 1
        log1 == log_audit_event(audit, u, "Created", rid, c, NoId)
    IN /\ Len(requests) < MaxRequests
       /\ BagCardinality(audit) < MaxAudit
       /\ requests' = Append(requests, NewRequest("Withdrawal", c, u))
       /\ crates' = Crate_save(crates, c, [crates[c] EXCEPT !.status = "Withdrawn"])
       /\ audit' = log_audit_event(log1, u, "Updated", rid, c, NoId)
       /\ Respond("create_withdrawal", rid, 201)
       /\ UNCHANGED sendbacks

issue_row_unissued(req, u) ==
  [req EXCEPT !.issue_date = timezone_now, !.issued_by = u]

\* The fields issue_documents sets on the instance it loaded.
issue_row(req, u) ==
  [req EXCEPT !.status = "Issued", !.issue_date = timezone_now, !.issued_by = u]

issue_documents(u, pw, pk) ==
  IF ~permission_class(u, "allocate_storage") THEN Refuse("issue", pk, 403)
  ELSE IF SignatureCode(pw) # 200 THEN Refuse("issue", pk, SignatureCode(pw))
  ELSE IF pk \notin Request_objects THEN Refuse("issue", pk, 404)
  ELSE IF requests[pk].request_type # "Withdrawal" THEN Refuse("issue", pk, 400)
  ELSE IF requests[pk].status # "Approved" THEN Refuse("issue", pk, 400)
  ELSE
    LET c == requests[pk].crate
    IN /\ BagCardinality(audit) < MaxAudit
       /\ requests' = [requests EXCEPT ![pk] = issue_row(requests[pk], u)]
       /\ crates' = Crate_save(crates, c, [crates[c] EXCEPT !.status = "Withdrawn"])
       /\ audit' = log_audit_event(audit, u, "Issued", pk, c, NoId)
       /\ Respond("issue", pk, 200)
       /\ UNCHANGED sendbacks

return_check_any_storage(u, pw, pk, storage) ==
  IF ~permission_class(u, "allocate_storage") THEN 403
  ELSE IF SignatureCode(pw) # 200 THEN SignatureCode(pw)
  ELSE IF pk \notin Request_objects THEN 404
  ELSE IF requests[pk].request_type # "Withdrawal" THEN 400
  ELSE IF requests[pk].status # "Issued" THEN 400
  ELSE 200

return_check(u, pw, pk, storage) ==
  IF ~permission_class(u, "allocate_storage") THEN 403
  ELSE IF SignatureCode(pw) # 200 THEN SignatureCode(pw)
  ELSE IF pk \notin Request_objects THEN 404
  ELSE IF requests[pk].request_type # "Withdrawal" THEN 400
  ELSE IF requests[pk].status # "Issued" THEN 400
  ELSE IF storage \notin Storages THEN 404
  ELSE 200

return_documents(u, pw, pk, storage, reason) ==
  IF return_check(u, pw, pk, storage) # 200
  THEN Refuse("return", pk, return_check(u, pw, pk, storage))
  ELSE
    LET c == requests[pk].crate
        log1 == log_audit_event(audit, u, "Returned", pk, c, NoId)
    IN /\ BagCardinality(audit) < MaxAudit
       /\ requests' = [requests EXCEPT ![pk].status = "Returned",
                                       ![pk].return_date = timezone_now]
       /\ crates' = Crate_save(crates, c, [crates[c] EXCEPT !.status = "Active",
                                                            !.storage = storage])
       /\ sendbacks' = IF reason
                       THEN sendbacks (+) SetToBag({[request |-> pk,
                                   sendback_type |-> "Return Note", created_by |-> u]})
                       ELSE sendbacks
       /\ audit' = log_audit_event(log1, u, "Allocated", NoId, c, storage)
       /\ Respond("return", pk, 200)

create_destruction_request(u, pw, c) ==
  IF ~permission_class(u, "create_request") THEN Refuse("create_destruction", NoId, 403)
  ELSE IF SignatureCode(pw) # 200
       THEN Refuse("create_destruction", NoId, SignatureCode(pw))
  ELSE IF c \notin Crate_objects THEN Refuse("create_destruction", NoId, 404)
  ELSE IF crates[c].status = "Destroyed" THEN Refuse("create_destruction", NoId, 400)
  ELSE
    LET rid == Len(requests) + 1
    IN /\ Len(requests) < MaxRequests
       /\ BagCardinality(audit) < MaxAudit
       /\ requests' = Append(requests, NewRequest("Destruction", c, u))
       /\ audit' = log_audit_event(audit, u, "Created", rid, c, NoId)
       /\ Respond("create_destruction", rid, 201)
       /\ UNCHANGED <<crates, sendbacks>>

\* The crate row that confirm_destruction saves: only the status is assigned,
\* the storage of the crate stays on the row.
destroy_row_releasing(row) == [row EXCEPT !.status = "Destroyed", !.storage = NoStorage]

destroy_row(row) == [row EXCEPT !.status = "Destroyed"]

confirm_destruction(u, pw, pk) ==
  IF ~permission_class(u, "create_request") THEN Refuse("confirm_destruction", pk, 403)
  ELSE IF SignatureCode(pw) # 200
       THEN Refuse("confirm_destruction", pk, SignatureCode(pw))
  ELSE IF pk \notin Request_objects THEN Refuse("confirm_destruction", pk, 404)
  ELSE IF requests[pk].request_type # "Destruction"
       THEN Refuse("confirm_destruction", pk, 400)
  ELSE IF requests[pk].status # "Approved" THEN Refuse("confirm_destruction", pk, 400)
  ELSE
    LET c == requests[pk].crate
    IN /\ BagCardinality(audit) < MaxAudit
       /\ crates' = Crate_save(crates, c, destroy_row(crates[c]))
       /\ requests' = [requests EXCEPT ![pk].status = "Completed"]
       /\ audit' = log_audit_event(audit, u, "Deleted", NoId, c, NoId)
       /\ Respond("confirm_destruction", pk, 200)
       /\ UNCHANGED sendbacks

\* update_storage_request, update_withdrawal_request, update_destruction_request:
\* the resubmission of a sent-back request through the endpoint of type `type`.
\* update_storage_request replaces the documents of the crate by those of the
\* call.
\* The Request row a resubmission saves: back to Pending for re-approval.
resubmit_row_approved(req) == [req EXCEPT !.status = "Approved"]

resubmit_row(req) == [req EXCEPT !.status = "Pending"]

\* request_obj.withdrawn_by != request.user, the owner check of a resubmission.
is_requester_or_creator(req, u) == req.withdrawn_by = u \/ CanCreateRequests(u)

is_requester(req, u) == req.withdrawn_by = u

update_request(type, u, pw, pk, documents) ==
  IF ~permission_class(u, "create_request") THEN Refuse("update", pk, 403)
  ELSE IF SignatureCode(pw) # 200 THEN Refuse("update", pk, SignatureCode(pw))
  ELSE IF pk \notin Request_objects THEN Refuse("update", pk, 404)
  ELSE IF requests[pk].status # "Sent Back" THEN Refuse("update", pk, 400)
  ELSE IF ~is_requester(requests[pk], u) THEN Refuse("update", pk, 403)
  ELSE IF requests[pk].request_type # type THEN Refuse("update", pk, 400)
  ELSE
    /\ BagCardinality(audit) < MaxAudit
    /\ requests' = [requests EXCEPT ![pk] = resubmit_row(requests[pk])]
    /\ audit' = log_audit_event(audit, u, "Updated", NoId, requests[pk].crate, NoId)
    /\ crates' = IF type = "Storage"
                 THEN Crate_save(crates, requests[pk].crate,
                                 [crates[requests[pk].crate] EXCEPT !.documents = documents])
                 ELSE crates
    /\ Respond("update", pk, 200)
    /\ UNCHANGED sendbacks

\* require_digital_signature takes the first argument of the function it
\* wraps for the request.  CrateViewSet.relocate is a method: its first
\* argument is the view, `request.data` raises AttributeError on it, and the
\* call ends with a 500 before the password is looked at.
require_digital_signature_on_method(pw) == 500

relocate(u, pw, c, storage) ==
  IF ~permission_class(u, "allocate_storage") THEN Refuse("relocate", c, 403)
  ELSE IF require_digital_signature_on_method(pw) # 200
       THEN Refuse("relocate", c, require_digital_signature_on_method(pw))
  ELSE IF c \notin Crate_objects THEN Refuse("relocate", c, 404)
  ELSE IF crates[c].status \notin {"Active", "Archived"} THEN Refuse("relocate", c, 400)
  ELSE IF storage \notin Storages THEN Refuse("relocate", c, 404)
  ELSE
    /\ BagCardinality(audit) < MaxAudit
    /\ crates' = Crate_save(crates, c, [crates[c] EXCEPT !.storage = storage])
    /\ audit' = log_audit_event(audit, u, "Relocated", NoId, c, storage)
    /\ Respond("relocate", c, 200)
    /\ UNCHANGED <<requests, sendbacks>>

\* ------------------------------------------------------ audit ledger rows
\* A second save of a persisted entry, after a change of one of its fields.
audit_save_again(e, action) ==
  /\ BagIn(e, audit)
  /\ LET r == AuditTrail_save(audit, TRUE, e, [e EXCEPT !.action = action])
     IN /\ audit' = r.log
        /\ Respond("AuditTrail.save", NoId, IF r.raised THEN 500 ELSE 200)
  /\ UNCHANGED <<crates, requests, sendbacks>>

audit_delete(e) ==
  /\ BagIn(e, audit)
  /\ LET r == AuditTrail_delete(audit, e)
     IN /\ audit' = r.log
        /\ Respond("AuditTrail.delete", NoId, IF r.raised THEN 500 ELSE 204)
  /\ UNCHANGED <<crates, requests, sendbacks>>

\* AuditTrailAdmin: has_add_permission, has_change_permission and
\* has_delete_permission all answer False, so the admin site refuses.
AuditTrailAdmin_has_permission(kind) == FALSE

audit_admin(kind, e) ==
  /\ BagIn(e, audit)
  /\ IF AuditTrailAdmin_has_permission(kind)
     THEN /\ audit' = IF kind = "delete" THEN audit (-) SetToBag({e})
                      ELSE (audit (-) SetToBag({e}))
                           (+) SetToBag({[e EXCEPT !.action = "Updated"]})
          /\ Respond("AuditTrailAdmin", NoId, 200)
     ELSE /\ audit' = audit
          /\ Respond("AuditTrailAdmin", NoId, 403)
  /\ UNCHANGED <<crates, requests, sendbacks>>

PkInputs == 1..MaxRequests
CrateInputs == 1..(MaxCrates + 1)

\* The calls of an actor: one that the permission class or the password check
\* refuses is refused whatever its other arguments are, so it is tried with
\* one value of them.
Pws(u, codename) == IF permission_class(u, codename) THEN Passwords ELSE {"good"}
Passes(u, codename, pw) == permission_class(u, codename) /\ SignatureCode(pw) = 200
Pks(u, codename, pw) == IF Passes(u, codename, pw) THEN PkInputs ELSE {1}
CrateIds(u, codename, pw) == IF Passes(u, codename, pw) THEN CrateInputs ELSE {1}
StorageIds(u, codename, pw) ==
  IF Passes(u, codename, pw) THEN StorageInputs ELSE {UnknownStorage}

Next ==
  \/ \E u \in Users, pw \in Passwords :
       \E documents \in (IF pw = "missing" THEN {{"D1"}} ELSE Submissions) :
         create_storage_request(u, pw, documents)
  \/ \E u \in Users : \E pw \in Pws(u, "approve_request") : \E pk \in Pks(u, "approve_request", pw) :
       approve_request(u, pw, pk)
  \/ \E u \in Users : \E pw \in Pws(u, "approve_request") : \E pk \in Pks(u, "approve_request", pw) :
       reject_request(u, pw, pk)
  \/ \E u \in Users : \E pw \in Pws(u, "approve_request") : \E pk \in Pks(u, "approve_request", pw) :
       send_back_request(u, pw, pk)
  \/ \E u \in Users : \E pw \in Pws(u, "allocate_storage") :
       \E pk \in Pks(u, "allocate_storage", pw), s \in StorageIds(u, "allocate_storage", pw) :
         allocate_storage(u, pw, pk, s)
  \/ \E u \in Users : \E pw \in Pws(u, "create_request") : \E c \in CrateIds(u, "create_request", pw) :
       create_withdrawal_request(u, pw, c)
  \/ \E u \in Users : \E pw \in Pws(u, "allocate_storage") : \E pk \in Pks(u, "allocate_storage", pw) :
       issue_documents(u, pw, pk)
  \/ \E u \in Users : \E pw \in Pws(u, "allocate_storage") :
       \E pk \in Pks(u, "allocate_storage", pw), s \in StorageIds(u, "allocate_storage", pw),
          reason \in (IF Passes(u, "allocate_storage", pw) THEN BOOLEAN ELSE {FALSE}) :
         return_documents(u, pw, pk, s, reason)
  \/ \E u \in Users : \E pw \in Pws(u, "create_request") : \E c \in CrateIds(u, "create_request", pw) :
       create_destruction_request(u, pw, c)
  \/ \E u \in Users : \E pw \in Pws(u, "create_request") : \E pk \in Pks(u, "create_request", pw) :
       confirm_destruction(u, pw, pk)
  \/ \E u \in Users : \E pw \in Pws(u, "create_request") :
       \E pk \in Pks(u, "create_request", pw),
          type \in (IF Passes(u, "create_request", pw) THEN RequestTypes ELSE {"Storage"}) :
         \E documents \in (IF Passes(u, "create_request", pw) /\ type = "Storage"
                            THEN Submissions ELSE {{"D1"}}) :
           update_request(type, u, pw, pk, documents)
  \/ \E u \in Users : \E pw \in Pws(u, "allocate_storage") :
       \E c \in CrateIds(u, "allocate_storage", pw), s \in StorageIds(u, "allocate_storage", pw) :
         relocate(u, pw, c, s)

  \/ \E e \in BagToSet(audit), action \in {"Viewed"} : audit_save_again(e, action)
  \/ \E e \in BagToSet(audit) : audit_delete(e)
  \/ \E e \in BagToSet(audit), kind \in {"change", "delete"} : audit_admin(kind, e)

Spec == Init /\ [][Next]_vars

\* ------------------------------------------------------ failing writes
\* A database write that raises ends the handler with a 500.  approve_request,
\* reject_request, allocate_storage and return_documents run outside any
\* transaction, so every statement before the one that raised stays
\* committed; create_withdrawal_request writes inside transaction.atomic(), so
\* its writes are rolled back together.
WriteRequest(pk, row) == [table |-> "request", id |-> pk, row |-> row]
WriteCrate(c, row) == [table |-> "crate", id |-> c, row |-> row]
WriteSendBack(row) == [table |-> "sendback", id |-> NoId, row |-> row]
WriteAudit(u, action, rid, cid, sid) ==
  [table |-> "audit", id |-> NoId, row |-> AuditEntry(u, action, rid, cid, sid)]

Database == [crates |-> crates, requests |-> requests, sendbacks |-> sendbacks,
             audit |-> audit]

ApplyWrite(db, w) ==
  CASE w.table = "request" -> [db EXCEPT !.requests[w.id] = w.row]
    [] w.table = "crate" -> [db EXCEPT !.crates[w.id] = w.row]
    [] w.table = "sendback" -> [db EXCEPT !.sendbacks = @ (+) SetToBag({w.row})]
    [] w.table = "audit" ->
         [db EXCEPT !.audit = AuditTrail_save(@, FALSE, w.row, w.row).log]

\* The first n statements of ws, in order.
RECURSIVE ApplyWrites(_, _, _)
ApplyWrites(db, ws, n) ==
  IF n = 0 THEN db
  ELSE ApplyWrite(ApplyWrites(db, ws, n - 1), ws[n])

\* The statements of each handler after its checks, in the order of the code.
approve_writes(u, pk) ==
  <<WriteRequest(pk, approve_row(requests[pk], u)),
    WriteAudit(u, "Approved", pk, requests[pk].crate, NoId)>>

reject_writes(u, pk) ==
  LET c == requests[pk].crate
      restore == requests[pk].request_type = "Withdrawal"
                 /\ crates[c].status = "Withdrawn"
  IN (IF restore
      THEN <<WriteCrate(c, [crates[c] EXCEPT !.status = "Active"]),
             WriteAudit(u, "Updated", pk, c, NoId)>>
      ELSE <<>>)
     \o <<WriteRequest(pk, [requests[pk] EXCEPT !.status = "Rejected"]),
          WriteSendBack([request |-> pk, sendback_type |-> "Change Request",
                         created_by |-> u]),
          WriteAudit(u, "Rejected", pk, c, NoId)>>

allocate_writes(u, pk, storage) ==
  LET c == requests[pk].crate
  IN <<WriteCrate(c, [crates[c] EXCEPT !.storage = storage]),
       WriteRequest(pk, allocate_row(requests[pk], u)),
       WriteAudit(u, "Allocated", pk, c, storage)>>

return_writes(u, pk, storage, reason) ==
  LET c == requests[pk].crate
  IN <<WriteRequest(pk, [requests[pk] EXCEPT !.status = "Returned",
                                             !.return_date = timezone_now]),
       WriteCrate(c, [crates[c] EXCEPT !.status = "Active", !.storage = storage])>>
     \o (IF reason
         THEN <<WriteSendBack([request |-> pk, sendback_type |-> "Return Note",
                               created_by |-> u])>>
         ELSE <<>>)
     \o <<WriteAudit(u, "Returned", pk, c, NoId),
       WriteAudit(u, "Allocated", NoId, c, storage)>>

\* The handler raises at statement n + 1 of ws: the first n stay committed.
FailAfter(op, ws, n) ==
  LET db == ApplyWrites(Database, ws, n)
  IN /\ crates' = db.crates
     /\ requests' = db.requests
     /\ sendbacks' = db.sendbacks
     /\ audit' = db.audit
     /\ Respond(op, NoId, 500)

approve_request_fails(u, pk, n) ==
  /\ approve_check(u, "good", pk) = 200
  /\ n < Len(approve_writes(u, pk))
  /\ FailAfter("approve", approve_writes(u, pk), n)

reject_request_fails(u, pk, n) ==
  /\ reject_check(u, "good", pk) = 200
  /\ n < Len(reject_writes(u, pk))
  /\ FailAfter("reject", reject_writes(u, pk), n)

allocate_storage_fails(u, pk, storage, n) ==
  /\ allocate_check(u, "good", pk, storage) = 200
  /\ n < Len(allocate_writes(u, pk, storage))
  /\ FailAfter("allocate", allocate_writes(u, pk, storage), n)

return_documents_fails(u, pk, storage, reason, n) ==
  /\ return_check(u, "good", pk, storage) = 200
  /\ n < Len(return_writes(u, pk, storage, reason))
  /\ FailAfter("return", return_writes(u, pk, storage, reason), n)

\* transaction.atomic(): the exception leaves the block and nothing is kept.
create_withdrawal_request_fails(u, c) ==
  /\ permission_class(u, "create_request")
  /\ c \in Crate_objects
  /\ crates[c].status \in {"Active", "Archived"}
  /\ Refuse("create_withdrawal", NoId, 500)

MaxWrites == 5

FailNext ==
  \/ \E u \in Users, pk \in PkInputs, n \in 0..(MaxWrites - 1) :
       approve_request_fails(u, pk, n)
  \/ \E u \in Users, pk \in PkInputs, n \in 0..(MaxWrites - 1) :
       reject_request_fails(u, pk, n)
  \/ \E u \in Users, pk \in PkInputs, s \in Storages, n \in 0..(MaxWrites - 1) :
       allocate_storage_fails(u, pk, s, n)
  \/ \E u \in Users, pk \in PkInputs, s \in Storages, reason \in BOOLEAN,
        n \in 0..(MaxWrites - 1) :
       return_documents_fails(u, pk, s, reason, n)
  \/ \E u \in Users, c \in CrateInputs : create_withdrawal_request_fails(u, c)

\* The failing calls, and the calls that lead to the states they start from.
NextOrFail ==
  \/ FailNext
  \/ \E u \in Users, documents \in Submissions : create_storage_request(u, "good", documents)
  \/ \E u \in Users, pk \in PkInputs : approve_request(u, "good", pk)
  \/ \E u \in Users, c \in CrateInputs : create_withdrawal_request(u, "good", c)
  \/ \E u \in Users, pk \in PkInputs : issue_documents(u, "good", pk)

SpecFail == Init /\ [][NextOrFail]_vars

\* --------------------------------------------------------- collaborators
\* The real-time broadcast runs in the post_save signal of Request, SendBack
\* and Crate, inside save(); the notification is queued by the handler after
\* its last statement.  Either of them may fail.
Outcomes == {"ok", "fails"}

broadcast_update_raising(outcome) ==
  IF outcome = "fails" THEN "raised" ELSE "returned"

\* broadcast_update: the whole body is in try/except Exception; a failure of
\* the channel layer is logged and the signal returns.
broadcast_update(outcome) == "returned"

\* send_..._notification.delay(...) in the handler: in try/except Exception,
\* the failure is printed.
queue_notification(outcome) == "returned"

\* The handler `op` with the statements ws and its collaborators: an
\* exception of the broadcast would leave save() after the first row is
\* written, one of the notification would leave the handler after the last
\* statement; otherwise every statement is made and `code` is answered.
RunWith(op, code, ws, broadcast, notify) ==
  LET saves == {i \in DOMAIN ws : ws[i].table # "audit"}
      first == CHOOSE i \in saves : \A j \in saves : i <= j
      db == ApplyWrites(Database, ws, Len(ws))
  IN /\ BagCardinality(audit) < MaxAudit
     /\ IF broadcast_update(broadcast) = "raised" THEN FailAfter(op, ws, first)
        ELSE IF queue_notification(notify) = "raised" THEN FailAfter(op, ws, Len(ws))
        ELSE /\ crates' = db.crates
             /\ requests' = db.requests
             /\ sendbacks' = db.sendbacks
             /\ audit' = db.audit
             /\ Respond(op, NoId, code)

approve_request_with(u, pk, broadcast, notify) ==
  /\ approve_check(u, "good", pk) = 200
  /\ RunWith("approve", 200, approve_writes(u, pk), broadcast, notify)

reject_request_with(u, pk, broadcast, notify) ==
  /\ reject_check(u, "good", pk) = 200
  /\ RunWith("reject", 200, reject_writes(u, pk), broadcast, notify)

allocate_storage_with(u, pk, storage, broadcast, notify) ==
  /\ allocate_check(u, "good", pk, storage) = 200
  /\ RunWith("allocate", 200, allocate_writes(u, pk, storage), broadcast, notify)

return_documents_with(u, pk, storage, reason, broadcast, notify) ==
  /\ return_check(u, "good", pk, storage) = 200
  /\ RunWith("return", 200, return_writes(u, pk, storage, reason), broadcast, notify)

\* The decisions and the storage steps are made while a collaborator fails;
\* the other calls lead to the states they start from.
CollabNext ==
  \/ \E u \in Users, pk \in PkInputs, broadcast \in Outcomes, notify \in Outcomes :
       /\ "fails" \in {broadcast, notify}
       /\ approve_request_with(u, pk, broadcast, notify)
  \/ \E u \in Users, pk \in PkInputs, broadcast \in Outcomes, notify \in Outcomes :
       /\ "fails" \in {broadcast, notify}
       /\ reject_request_with(u, pk, broadcast, notify)
  \/ \E u \in Users, pk \in PkInputs, storage \in Storages,
        broadcast \in Outcomes, notify \in Outcomes :
       /\ "fails" \in {broadcast, notify}
       /\ allocate_storage_with(u, pk, storage, broadcast, notify)
  \/ \E u \in Users, pk \in PkInputs, storage \in Storages, reason \in BOOLEAN,
        broadcast \in Outcomes, notify \in Outcomes :
       /\ "fails" \in {broadcast, notify}
       /\ return_documents_with(u, pk, storage, reason, broadcast, notify)
  \/ \E u \in Users, documents \in Submissions : create_storage_request(u, "good", documents)
  \/ \E u \in Users, c \in CrateInputs : create_withdrawal_request(u, "good", c)
  \/ \E u \in Users, pk \in PkInputs : issue_documents(u, "good", pk)

SpecCollab == Init /\ [][CollabNext]_vars

\* ------------------------------------------------------ accounts and roles
\* The approval, allocation and creation calls of every kind of account: the
\* three roles, a superuser, and an account whose role grants nothing.
AllUsers == Users \cup {"admin", "clerk"}

RolesNext ==
  \/ \E u \in AllUsers, pw \in Passwords : create_storage_request(u, pw, {"D1"})
  \/ \E u \in AllUsers, pw \in Passwords, pk \in PkInputs : approve_request(u, pw, pk)
  \/ \E u \in AllUsers, pw \in Passwords, pk \in PkInputs : reject_request(u, pw, pk)
  \/ \E u \in AllUsers, pw \in Passwords, pk \in PkInputs :
       send_back_request(u, pw, pk)
  \/ \E u \in AllUsers, pw \in Passwords, pk \in PkInputs, s \in StorageInputs :
       allocate_storage(u, pw, pk, s)

SpecRoles == Init /\ [][RolesNext]_vars

\* Resubmissions by the accounts that may create requests: the requester
\* "user" and the superuser, each with the right password.
Creators == {u \in AllUsers : CanCreateRequests(u)}

ResubmitNext ==
  \/ \E u \in Creators : create_storage_request(u, "good", {"D1"})
  \/ \E u \in Creators, c \in CrateInputs : create_withdrawal_request(u, "good", c)
  \/ \E pk \in PkInputs : send_back_request("head", "good", pk)
  \/ \E pk \in PkInputs : approve_request("head", "good", pk)
  \/ \E type \in RequestTypes, u \in Creators, pk \in PkInputs,
        documents \in Submissions :
       update_request(type, u, "good", pk, documents)

SpecResubmit == Init /\ [][ResubmitNext]_vars

\* ------------------------------------------------------ concurrent calls
\* The handlers run in separate workers without a transaction around them
\* and without row locks: every ORM statement commits on its own.  A handler
\* loads a row into an instance, changes the instance and saves it, and the
\* save writes every column of the instance.  Inserts into the ledger and
\* into the send-back table read nothing, so each is taken together with the
\* save it follows.
MaxCalls == 2

ConcOps == {"approve", "reject", "allocate"}

ConcCheck(op, u, pw, pk, storage) ==
  CASE op = "approve" -> approve_check(u, pw, pk)
    [] op = "reject" -> reject_check(u, pw, pk)
    [] op = "allocate" -> allocate_check(u, pw, pk, storage)

Finish(w, code) ==
  workers' = [workers EXCEPT ![w] = [IdleWorker(workers[w].calls + 1)
                                       EXCEPT !.code = code, !.op = workers[w].op]]

\* The call arrives: the permission classes, the password check, and
\* Request.objects.get with the status check on the instance it returns.
conc_begin(w, op, u, pw, pk, storage) ==
  /\ workers[w].pc = "idle"
  /\ workers[w].calls < MaxCalls
  /\ LET code == ConcCheck(op, u, pw, pk, storage)
     IN workers' = [workers EXCEPT ![w] =
          IF code # 200
          THEN [IdleWorker(workers[w].calls + 1) EXCEPT !.code = code, !.op = op]
          ELSE [workers[w] EXCEPT !.pc = op, !.op = op, !.user = u, !.pk = pk,
                                  !.storage = storage, !.req = requests[pk]]]
  /\ UNCHANGED <<dbvars, response, sigvars, authvars>>

\* approve_request: request_obj.save() and the ledger entry.
approve_save(w) ==
  /\ workers[w].pc = "approve"
  /\ LET me == workers[w]
     IN /\ requests' = [requests EXCEPT ![me.pk] = approve_row(me.req, me.user)]
        /\ audit' = log_audit_event(audit, me.user, "Approved", me.pk, me.req.crate, NoId)
  /\ Finish(w, 200)
  /\ UNCHANGED <<crates, sendbacks, response, sigvars, authvars>>

\* reject_request: request_obj.crate loads the Crate.
reject_load_crate(w) ==
  /\ workers[w].pc = "reject"
  /\ workers' = [workers EXCEPT ![w].crate = crates[workers[w].req.crate],
                                ![w].pc = "reject_crate"]
  /\ UNCHANGED <<dbvars, response, sigvars, authvars>>

\* reject_request: the Crate of a withdrawal goes back to Active, then
\* request_obj.save(), the SendBack row and the ledger entry.
reject_save(w) ==
  /\ workers[w].pc = "reject_crate"
  /\ LET me == workers[w]
         c == me.req.crate
         restore == me.req.request_type = "Withdrawal" /\ me.crate.status = "Withdrawn"
         log1 == IF restore THEN log_audit_event(audit, me.user, "Updated", me.pk, c, NoId)
                 ELSE audit
     IN /\ crates' = IF restore
                     THEN [crates EXCEPT ![c] = [me.crate EXCEPT !.status = "Active"]]
                     ELSE crates
        /\ requests' = [requests EXCEPT ![me.pk] = [me.req EXCEPT !.status = "Rejected"]]
        /\ sendbacks' = sendbacks (+) SetToBag({[request |-> me.pk,
                               sendback_type |-> "Change Request", created_by |-> me.user]})
        /\ audit' = log_audit_event(log1, me.user, "Rejected", me.pk, c, NoId)
  /\ Finish(w, 200)
  /\ UNCHANGED <<response, sigvars, authvars>>

\* allocate_storage: request_obj.crate loads the Crate.
allocate_load_crate(w) ==
  /\ workers[w].pc = "allocate"
  /\ workers' = [workers EXCEPT ![w].crate = crates[workers[w].req.crate],
                                ![w].pc = "allocate_crate"]
  /\ UNCHANGED <<dbvars, response, sigvars, authvars>>

\* allocate_storage: crate.save() with the new storage.
allocate_save_crate(w) ==
  /\ workers[w].pc = "allocate_crate"
  /\ LET me == workers[w]
     IN crates' = [crates EXCEPT ![me.req.crate] =
                     [me.crate EXCEPT !.storage = me.storage]]
  /\ workers' = [workers EXCEPT ![w].pc = "allocate_request"]
  /\ UNCHANGED <<requests, sendbacks, audit, response, sigvars, authvars>>

\* allocate_storage: request_obj.save() and the ledger entry.
allocate_save(w) ==
  /\ workers[w].pc = "allocate_request"
  /\ LET me == workers[w]
     IN /\ requests' = [requests EXCEPT ![me.pk] = allocate_row(me.req, me.user)]
        /\ audit' = log_audit_event(audit, me.user, "Allocated", me.pk,
                                    me.req.crate, me.storage)
  /\ Finish(w, 200)
  /\ UNCHANGED <<crates, sendbacks, response, sigvars, authvars>>

\* create_withdrawal_request: the checks and Crate.objects.get, before the
\* transaction opens and without a lock on the row.
withdrawal_begin(w, u, pw, c) ==
  /\ workers[w].pc = "idle"
  /\ workers[w].calls < MaxCalls
  /\ LET code == create_withdrawal_check(u, pw, c)
     IN workers' = [workers EXCEPT ![w] =
          IF code # 200
          THEN [IdleWorker(workers[w].calls + 1)
                  EXCEPT !.code = code, !.op = "create_withdrawal"]
          ELSE [workers[w] EXCEPT !.pc = "create_withdrawal",
                                  !.op = "create_withdrawal", !.user = u,
                                  !.req = NewRequest("Withdrawal", c, u),
                                  !.crate = crates[c]]]
  /\ UNCHANGED <<dbvars, response, sigvars, authvars>>

\* create_withdrawal_request: the transaction.atomic() block, committed as
\* one: the Request, crate.save() and the two ledger entries.
withdrawal_commit(w) ==
  /\ workers[w].pc = "create_withdrawal"
  /\ LET me == workers[w]
         c == me.req.crate
         rid == Len(requests) + 1
     IN /\ requests' = Append(requests, me.req)
        /\ crates' = [crates EXCEPT ![c] = [me.crate EXCEPT !.status = "Withdrawn"]]
        /\ audit' = log_audit_event(
                      log_audit_event(audit, me.user, "Created", rid, c, NoId),
                      me.user, "Updated", rid, c, NoId)
  /\ Finish(w, 201)
  /\ UNCHANGED <<sendbacks, response, sigvars, authvars>>

\* The database after one create_storage_request by "user".
ConcInit ==
  /\ workers = [w \in Workers |-> IdleWorker(0)]
  /\ crates = <<[status |-> "Active", storage |-> NoStorage, barcode |-> Barcode(1),
                  documents |-> {"D1"}]>>
  /\ requests = <<NewRequest("Storage", 1, "user")>>
  /\ sendbacks = EmptyBag
  /\ audit = log_audit_event(EmptyBag, "user", "Created", 1, 1, NoId)
  /\ response = [op |-> "create_storage", code |-> 201]
  /\ signatures = <<>>
  /\ created = <<>>
  /\ sig_clock = 0
  /\ verified = [id |-> NoId, valid |-> TRUE, message |-> "none"]
  /\ accounts = NewAccounts
  /\ policies = NoPolicies

ConcNext ==
  \/ \E w \in Workers, op \in ConcOps, u \in Users, pw \in Passwords :
       \E pk \in (IF SignatureCode(pw) = 200 THEN {1, 2} ELSE {1}),
          s \in (IF op = "allocate" /\ SignatureCode(pw) = 200
                 THEN StorageInputs ELSE {UnknownStorage}) :
         conc_begin(w, op, u, pw, pk, s)
  \/ \E w \in Workers : approve_save(w)
  \/ \E w \in Workers : reject_load_crate(w)
  \/ \E w \in Workers : reject_save(w)
  \/ \E w \in Workers : allocate_load_crate(w)
  \/ \E w \in Workers : allocate_save_crate(w)
  \/ \E w \in Workers : allocate_save(w)
  \/ \E w \in Workers, u \in Users, pw \in Passwords :
       \E c \in (IF SignatureCode(pw) = 200 THEN CrateInputs ELSE {1}) :
         withdrawal_begin(w, u, pw, c)
  \/ \E w \in Workers : withdrawal_commit(w)

SpecConc == ConcInit /\ [][ConcNext]_vars

\* ------------------------------------------------------ concurrent returns
\* return_documents has no transaction.atomic() and no select_for_update:
\* the request is loaded and checked, the Storage is looked up, the request
\* is saved, request_obj.crate loads the Crate, and the Crate is saved.
\* The database after create_storage_request, create_withdrawal_request,
\* approve_request and issue_documents on crate 1.
ReturnInit ==
  /\ workers = [w \in Workers |-> IdleWorker(0)]
  /\ crates = <<[status |-> "Withdrawn", storage |-> NoStorage, barcode |-> Barcode(1),
                  documents |-> {"D1"}]>>
  /\ requests = <<NewRequest("Storage", 1, "user"),
                  issue_row(approve_row(NewRequest("Withdrawal", 1, "user"), "head"),
                            "store")>>
  /\ sendbacks = EmptyBag
  /\ audit = log_audit_event(log_audit_event(log_audit_event(log_audit_event(
               log_audit_event(EmptyBag, "user", "Created", 1, 1, NoId),
               "user", "Created", 2, 1, NoId), "user", "Updated", 2, 1, NoId),
               "head", "Approved", 2, 1, NoId), "store", "Issued", 2, 1, NoId)
  /\ response = [op |-> "issue", code |-> 200]
  /\ signatures = <<>>
  /\ created = <<>>
  /\ sig_clock = 0
  /\ verified = [id |-> NoId, valid |-> TRUE, message |-> "none"]
  /\ accounts = NewAccounts
  /\ policies = NoPolicies

\* return_documents: the permission classes, the password check,
\* Request.objects.get with the checks on the instance, Storage.objects.get.
return_begin(w, u, pw, pk, storage) ==
  /\ workers[w].pc = "idle"
  /\ workers[w].calls < MaxCalls
  /\ LET code == return_check(u, pw, pk, storage)
     IN workers' = [workers EXCEPT ![w] =
          IF code # 200
          THEN [IdleWorker(workers[w].calls + 1) EXCEPT !.code = code, !.op = "return"]
          ELSE [workers[w] EXCEPT !.pc = "return", !.op = "return", !.user = u,
                                  !.pk = pk, !.storage = storage,
                                  !.req = requests[pk]]]
  /\ UNCHANGED <<dbvars, response, sigvars, authvars>>

\* return_documents: request_obj.save() with status Returned.
return_save_request(w) ==
  /\ workers[w].pc = "return"
  /\ LET me == workers[w]
     IN requests' = [requests EXCEPT ![me.pk] =
                       [me.req EXCEPT !.status = "Returned",
                                      !.return_date = timezone_now]]
  /\ workers' = [workers EXCEPT ![w].pc = "return_request"]
  /\ UNCHANGED <<crates, sendbacks, audit, response, sigvars, authvars>>

\* return_documents: request_obj.crate loads the Crate.
return_load_crate(w) ==
  /\ workers[w].pc = "return_request"
  /\ workers' = [workers EXCEPT ![w].crate = crates[workers[w].req.crate],
                                ![w].pc = "return_crate"]
  /\ UNCHANGED <<dbvars, response, sigvars, authvars>>

\* return_documents: crate.save() with status Active and the storage of the
\* call, the return note and the two ledger entries.
return_save_crate(w, reason) ==
  /\ workers[w].pc = "return_crate"
  /\ LET me == workers[w]
         c == me.req.crate
     IN /\ crates' = [crates EXCEPT ![c] =
                        [me.crate EXCEPT !.status = "Active", !.storage = me.storage]]
        /\ sendbacks' = IF reason
                        THEN sendbacks (+) SetToBag({[request |-> me.pk,
                               sendback_type |-> "Return Note", created_by |-> me.user]})
                        ELSE sendbacks
        /\ audit' = log_audit_event(
                      log_audit_event(audit, me.user, "Returned", me.pk, c, NoId),
                      me.user, "Allocated", NoId, c, me.storage)
  /\ Finish(w, 200)
  /\ UNCHANGED <<requests, response, sigvars, authvars>>

\* CrateViewSet.relocate called next to a return: the permission classes,
\* then the decorator, which fails on the view instance.
relocate_call(w, u, pw, c, storage) ==
  /\ workers[w].pc = "idle"
  /\ workers[w].calls < MaxCalls
  /\ workers' = [workers EXCEPT ![w] =
       [IdleWorker(workers[w].calls + 1)
          EXCEPT !.op = "relocate",
                 !.code = IF ~permission_class(u, "allocate_storage") THEN 403
                          ELSE require_digital_signature_on_method(pw)]]
  /\ UNCHANGED <<dbvars, response, sigvars, authvars>>

ReturnNext ==
  \/ \E w \in Workers, u \in Users, pw \in Passwords, pk \in PkInputs,
        storage \in StorageInputs :
       return_begin(w, u, pw, pk, storage)
  \/ \E w \in Workers : return_save_request(w)
  \/ \E w \in Workers : return_load_crate(w)
  \/ \E w \in Workers, reason \in BOOLEAN : return_save_crate(w, reason)
  \/ \E w \in Workers, u \in Users, pw \in Passwords, storage \in Storages :
       relocate_call(w, u, pw, 1, storage)

SpecReturn == ReturnInit /\ [][ReturnNext]_vars

\* ------------------------------------------------------------------ login
\* POST /api/auth/login/, open to everyone, with the calls that change what
\* it reads: the passing of time, user_detail and unlock_user.
UnknownUsername == "ghost"
AccountStatuses == {"Active", "Inactive", "Suspended", "Locked"}

\* log_audit_event for the login entries: the user reference and the
\* username recorded with it; the reason stands for the message.
log_login_event(log, user, action, attempted_username, reason) ==
  LET e == [action |-> action, user |-> user, request_id |-> NoId, crate_id |-> NoId,
            storage_id |-> NoId,
            attempted_username |-> IF user # NoUser THEN user ELSE attempted_username,
            reason |-> reason]
  IN AuditTrail_save(log, FALSE, e, e).log

log_login_success(log, user) == log_login_event(log, user, "Login", NoUser, "none")

log_login_failed_unnamed(log, user, reason, attempted_username) ==
  log_login_event(log, user, "LoginFailed", NoUser, reason)

log_login_failed(log, user, reason, attempted_username) ==
  log_login_event(log, user, "LoginFailed",
                  IF user # NoUser THEN NoUser ELSE attempted_username, reason)

\* The response of login: the tokens are for `access`.
RespondLogin(code, access) ==
  /\ response' = [op |-> "login", code |-> code, access |-> access]
  /\ UNCHANGED <<crates, requests, sendbacks, sigvars, policies, workers>>

\* The failed_login_attempts a wrong password leaves on the row.
count_failure_locking(row) ==
  [row EXCEPT !.failed_login_attempts = @ + 1,
              !.status = IF row.failed_login_attempts + 1 >= 5 THEN "Locked" ELSE @]

count_failure(row) == [row EXCEPT !.failed_login_attempts = @ + 1]

login(username, password) ==
  IF password = "missing"
  THEN RespondLogin(400, NoUser) /\ UNCHANGED <<audit, accounts>>
  ELSE
    /\ BagCardinality(audit) < MaxAudit
    /\ IF username \notin DOMAIN accounts
       THEN /\ audit' = log_login_failed(audit, NoUser, "User not found", username)
            /\ RespondLogin(401, NoUser)
            /\ UNCHANGED accounts
       ELSE IF accounts[username].password_aged
       THEN /\ accounts' = [accounts EXCEPT ![username].password_expired = TRUE,
                                            ![username].status = "Locked"]
            /\ audit' = log_login_failed(audit, username, "Password has expired", NoUser)
            /\ RespondLogin(403, NoUser)
       ELSE IF accounts[username].status = "Locked"
       THEN /\ audit' = log_login_failed(audit, username, "Account is locked", NoUser)
            /\ RespondLogin(403, NoUser)
            /\ UNCHANGED accounts
       ELSE IF password # "good"
       THEN /\ accounts' = [accounts EXCEPT ![username] = count_failure(@)]
            /\ audit' = log_login_failed(audit, username, "Invalid password", NoUser)
            /\ RespondLogin(401, NoUser)
       ELSE IF accounts[username].status # "Active"
       THEN /\ audit' = log_login_failed(audit, username, "Account status", NoUser)
            /\ RespondLogin(403, NoUser)
            /\ UNCHANGED accounts
       ELSE /\ accounts' = [accounts EXCEPT ![username].failed_login_attempts = 0]
            /\ audit' = log_login_success(audit, username)
            /\ RespondLogin(200, username)

\* Time passes: the password of u is older than the policy allows.
password_ages(u) ==
  /\ ~accounts[u].password_aged
  /\ accounts' = [accounts EXCEPT ![u].password_aged = TRUE]
  /\ UNCHANGED <<dbvars, response, sigvars, policies, workers>>

\* user_detail, PUT by an administrator with a new status for u.
user_detail(u, status) ==
  /\ BagCardinality(audit) < MaxAudit
  /\ accounts' = [accounts EXCEPT ![u].status = status]
  /\ audit' = log_login_event(audit, "admin", "Updated", NoUser, "none")
  /\ response' = [op |-> "user_detail", code |-> 200]
  /\ UNCHANGED <<crates, requests, sendbacks, sigvars, policies, workers>>

\* unlock_user: User.unlock, and the reset of an expired password.
unlock_user(u) ==
  /\ BagCardinality(audit) < MaxAudit
  /\ accounts' = [accounts EXCEPT ![u] =
       [status |-> "Active", failed_login_attempts |-> 0, password_expired |-> FALSE,
        password_aged |-> IF accounts[u].password_expired THEN FALSE
                          ELSE accounts[u].password_aged]]
  /\ audit' = log_login_event(audit, "admin", "Updated", NoUser, "none")
  /\ response' = [op |-> "unlock_user", code |-> 200]
  /\ UNCHANGED <<crates, requests, sendbacks, sigvars, policies, workers>>

LoginNext ==
  \/ \E username \in {"user", UnknownUsername}, password \in Passwords :
       login(username, password)
  \/ password_ages("user")
  \/ \E status \in AccountStatuses : user_detail("user", status)
  \/ unlock_user("user")

SpecLogin == Init /\ [][LoginNext]_vars

\* -------------------------------------------------------- security policies
\* update_password_expiry and update_session_timeout, without a transaction:
\* the view reads objects.first(), then saves the row it found or creates
\* one; Model.save of a new row asks objects.exists() before it inserts.
\* In the worker, op is the policy and pk the number the call carries.
CanManageUsers(u) == has_privilege(u, "manage_users")

PolicyKinds == {"password", "session"}
ExpiryInputs == {0, 1, 90, 91}
TIMEOUT_CHOICES == {5, 10, 15, 20, 25, 30}
TimeoutInputs == {5, 30, 60}

\* The checks of the view on the number of the call.
policy_check(kind, u, value) ==
  IF ~CanManageUsers(u) THEN 403
  ELSE IF value = 0 THEN 400
  ELSE IF kind = "password" /\ (value < 1 \/ value > 90) THEN 400
  ELSE IF kind = "session" /\ value \notin TIMEOUT_CHOICES THEN 400
  ELSE 200

\* The call arrives: the checks and objects.first().
policy_begin(w, kind, u, value) ==
  /\ workers[w].pc = "idle"
  /\ workers[w].calls < MaxCalls
  /\ LET code == policy_check(kind, u, value)
     IN workers' = [workers EXCEPT ![w] =
          IF code # 200
          THEN [IdleWorker(workers[w].calls + 1) EXCEPT !.code = code, !.op = kind]
          ELSE [workers[w] EXCEPT !.op = kind, !.user = u, !.pk = value,
                  !.pc = IF policies[kind] = <<>> THEN "policy_create"
                         ELSE "policy_update"]]
  /\ UNCHANGED <<dbvars, response, sigvars, authvars>>

\* The row that first() returned is saved with the new number.
policy_update(w) ==
  /\ workers[w].pc = "policy_update"
  /\ LET me == workers[w]
     IN /\ policies' = [policies EXCEPT ![me.op][1] = me.pk]
        /\ audit' = log_audit_event(audit, me.user, "Updated", NoId, NoId, NoId)
  /\ Finish(w, 200)
  /\ UNCHANGED <<crates, requests, sendbacks, response, sigvars, accounts>>

\* objects.create: save() of a new row asks whether a row exists, and
\* raises ValueError when one does.
policy_exists(w) ==
  /\ workers[w].pc = "policy_create"
  /\ IF policies[workers[w].op] # <<>>
     THEN Finish(w, 500)
     ELSE workers' = [workers EXCEPT ![w].pc = "policy_insert"]
  /\ UNCHANGED <<dbvars, response, sigvars, authvars>>

\* objects.create: the INSERT of the row, and the ledger entry of the view.
policy_insert(w) ==
  /\ workers[w].pc = "policy_insert"
  /\ LET me == workers[w]
     IN /\ policies' = [policies EXCEPT ![me.op] = Append(@, me.pk)]
        /\ audit' = log_audit_event(audit, me.user, "Updated", NoId, NoId, NoId)
  /\ Finish(w, 200)
  /\ UNCHANGED <<crates, requests, sendbacks, response, sigvars, accounts>>

PolicyNext ==
  \/ \E w \in Workers, kind \in PolicyKinds, u \in {"admin", "user"} :
       \E value \in (IF kind = "password" THEN ExpiryInputs ELSE TimeoutInputs) :
         policy_begin(w, kind, u, value)
  \/ \E w \in Workers : policy_update(w)
  \/ \E w \in Workers : policy_exists(w)
  \/ \E w \in Workers : policy_insert(w)

SpecPolicy == Init /\ [][PolicyNext]_vars

\* ------------------------------------------------------------ crate API
\* CrateViewSet: POST /api/crates/ and PUT /api/crates/{id}/, open to every
\* authenticated user.  No transaction is around the view, so the two writes
\* of Crate.save for a new crate commit one after the other, and the read
\* of the greatest barcode between them sees what the other calls have
\* committed so far.
MaxCreations == 2

CrateStatuses == {"Active", "Withdrawn", "Archived", "Destroyed"}

\* Crate.save, first write: the row is inserted with the placeholder.
crate_insert(w, u) ==
  /\ workers[w].pc = "idle"
  /\ workers[w].calls < MaxCalls
  /\ Len(crates) < MaxCreations
  /\ crates' = Append(crates, [status |-> "Active", storage |-> NoStorage,
                               barcode |-> Placeholder(Len(crates) + 1),
                               documents |-> NoDocuments])
  /\ workers' = [workers EXCEPT ![w] =
       [@ EXCEPT !.pc = "crate_number", !.op = "crate_create", !.user = u,
                 !.pk = Len(crates) + 1,
                 !.crate = [status |-> "Active", storage |-> NoStorage,
                            barcode |-> Placeholder(Len(crates) + 1),
                            documents |-> NoDocuments]]]
  /\ UNCHANGED <<requests, sendbacks, audit, response, sigvars, authvars>>

\* Crate.save, the aggregate Max('barcode') over the other rows of the
\* prefix: the instance gets the barcode with the next number.
crate_number(w) ==
  /\ workers[w].pc = "crate_number"
  /\ workers' = [workers EXCEPT ![w] =
       [@ EXCEPT !.pc = "crate_finalize",
                 !.crate.barcode = Barcode(next_number(crates, workers[w].pk))]]
  /\ UNCHANGED <<dbvars, response, sigvars, authvars>>

\* Crate.save, second write: every column of the instance is written.  The
\* barcode column is unique: when another row holds the barcode the write
\* raises IntegrityError and the call ends with a 500, the row keeping what
\* it had.  Otherwise perform_create appends its ledger entry.
crate_finalize(w) ==
  /\ workers[w].pc = "crate_finalize"
  /\ LET me == workers[w]
     IN IF \E c \in Crate_objects : c # me.pk /\ crates[c].barcode = me.crate.barcode
        THEN /\ Finish(w, 500)
             /\ UNCHANGED dbvars
        ELSE /\ BagCardinality(audit) < MaxAudit
             /\ crates' = [crates EXCEPT ![me.pk] = me.crate]
             /\ audit' = log_audit_event(audit, me.user, "Created", NoId, me.pk, NoId)
             /\ Finish(w, 201)
             /\ UNCHANGED <<requests, sendbacks>>
  /\ UNCHANGED <<response, sigvars, authvars>>

\* POST /api/crates/ takes no documents: the crate it makes holds none.
\* PUT /api/crates/{id}/: CrateSerializer takes status and storage from the
\* call and leaves the read-only barcode of the instance as loaded;
\* perform_update appends a ledger entry.
crate_update(w, u, c, status, storage) ==
  /\ workers[w].pc = "idle"
  /\ workers[w].calls < MaxCalls
  /\ workers' = [workers EXCEPT ![w] =
       [IdleWorker(workers[w].calls + 1)
          EXCEPT !.op = "crate_update",
                 !.code = IF c \in Crate_objects THEN 200 ELSE 404]]
  /\ IF c \notin Crate_objects THEN UNCHANGED dbvars
     ELSE /\ BagCardinality(audit) < MaxAudit
          /\ crates' = Crate_save(crates, c, [crates[c] EXCEPT !.status = status,
                                                               !.storage = storage])
          /\ audit' = log_audit_event(audit, u, "Updated", NoId, c, NoId)
          /\ UNCHANGED <<requests, sendbacks>>
  /\ UNCHANGED <<response, sigvars, authvars>>

\* DELETE /api/crates/{id}/: perform_destroy appends its ledger entry and
\* deletes the row.  Request.crate and SendBack.request are declared with
\* on_delete=CASCADE: the requests on the crate and their send-back records
\* go with it.  The ledger holds plain integers and keeps its entries.
crate_destroy(w, u, c) ==
  /\ workers[w].pc = "idle"
  /\ workers[w].calls < MaxCalls
  /\ workers' = [workers EXCEPT ![w] =
       [IdleWorker(workers[w].calls + 1)
          EXCEPT !.op = "crate_destroy",
                 !.code = IF c \in Crate_objects THEN 204 ELSE 404]]
  /\ IF c \notin Crate_objects THEN UNCHANGED dbvars
     ELSE LET gone == {pk \in Request_objects : requests[pk].crate = c}
              kept == {sb \in BagToSet(sendbacks) : sb.request \notin gone}
          IN /\ BagCardinality(audit) < MaxAudit
             /\ audit' = log_audit_event(audit, u, "Deleted", NoId, c, NoId)
             /\ crates' = [crates EXCEPT ![c] = DeletedCrate]
             /\ requests' = [pk \in DOMAIN requests |->
                              IF pk \in gone THEN DeletedRequest ELSE requests[pk]]
             /\ sendbacks' = [sb \in kept |-> sendbacks[sb]]
  /\ UNCHANGED <<response, sigvars, authvars>>

\* The creations alone: the crate API and create_storage_request.
BarcodeNext ==
  \/ \E w \in Workers, u \in Users : crate_insert(w, u)
  \/ \E w \in Workers : crate_number(w)
  \/ \E w \in Workers : crate_finalize(w)
  \/ \E u \in Users, documents \in Submissions : create_storage_request(u, "good", documents)

SpecBarcode == Init /\ [][BarcodeNext]_vars

\* The crate API next to the creation of Withdrawal requests.  The crate
\* API asks for an authenticated user and nothing more: its calls are made
\* by one user.
CratesNext ==
  \/ \E w \in Workers : crate_insert(w, "user")
  \/ \E w \in Workers : crate_number(w)
  \/ \E w \in Workers : crate_finalize(w)
  \/ \E w \in Workers, c \in CrateInputs, status \in CrateStatuses,
        storage \in Storages \cup {NoStorage} : crate_update(w, "user", c, status, storage)
  \/ \E w \in Workers, u \in Users, c \in CrateInputs : withdrawal_begin(w, u, "good", c)
  \/ \E w \in Workers : withdrawal_commit(w)

SpecCrates == Init /\ [][CratesNext]_vars

\* The crate API next to the creation and the decision of requests, every
\* call made with the right password by an account that may make it.
ApiNext ==
  \/ create_storage_request("user", "good", {"D1"})
  \/ \E c \in CrateInputs : create_withdrawal_request("user", "good", c)
  \/ \E pk \in PkInputs : approve_request("head", "good", pk)
  \/ \E pk \in PkInputs : reject_request("head", "good", pk)
  \/ \E pk \in PkInputs : send_back_request("head", "good", pk)
  \/ \E w \in Workers, c \in CrateInputs, status \in CrateStatuses,
        storage \in Storages \cup {NoStorage} : crate_update(w, "user", c, status, storage)
  \/ \E w \in Workers, c \in CrateInputs : crate_destroy(w, "user", c)

SpecApi == Init /\ [][ApiNext]_vars

\* ------------------------------------------------------ signature ledger
MaxSignatures == 2
NoTimestamp == 0

\* The signer snapshot create_signature takes from the live user record.
UserProfile(u) ==
  [username |-> u, full_name |-> "Name of " \o u, email |-> u \o "@cipla.test",
   role_name |-> CASE u = "user" -> "User" [] u = "head" -> "Section Head"
                   [] u = "store" -> "Store Head" [] OTHER -> "No Role"]

SignatureTypes == {"APPROVE"}
SignedData ==
  {[action |-> "approve", status |-> "Pending"],
   [action |-> "reject", status |-> "Pending"]}

\* json.dumps(data, sort_keys=True): the member list of the dict, whose order
\* does not depend on the order of insertion.
json_dumps(data) == {<<k, data[k]>> : k \in DOMAIN data}

\* hashlib.sha256(...).hexdigest(): a digest that is equal only for equal input.
sha256(text) == <<"sha256", text>>

\* The f-string formatting of a DateTimeField attribute.
str_timestamp(ts) == IF ts = NoTimestamp THEN "None" ELSE ToString(ts)

signature_string(r) ==
  <<r.signer_username, "|", r.signer_full_name, "|", r.signer_role, "|",
    r.signature_type, "|", str_timestamp(r.signature_timestamp), "|",
    r.signed_model, "|", ToString(r.signed_record_id), "|", r.data_hash>>

\* DigitalSignature.save for an instance without a primary key: the signature
\* hash is computed from the fields as they are before the insert, then the
\* insert fills the auto_now_add fields from the clock.
DigitalSignature_insert(r, clock) ==
  [r EXCEPT !.signature_hash = sha256(signature_string(r)),
            !.signature_timestamp = clock,
            !.password_verified_at = clock]

\* The instance create_signature builds before it calls save.
NewSignature(u, type, rid, data) ==
  [signer |-> u,
   signer_username |-> UserProfile(u).username,
   signer_full_name |-> UserProfile(u).full_name,
   signer_role |-> UserProfile(u).role_name,
   signer_email |-> UserProfile(u).email,
   password_verified_at |-> NoTimestamp,
   authentication_method |-> "PASSWORD",
   signature_type |-> type,
   signature_purpose |-> "purpose",
   signature_timestamp |-> NoTimestamp,
   signed_model |-> "Request",
   signed_record_id |-> rid,
   signed_record_description |-> "description",
   data_hash |-> sha256(json_dumps(data)),
   signature_data |-> data,
   signature_hash |-> sha256(<<>>),
   ip_address |-> "10.0.0.1",
   user_agent |-> "agent",
   is_valid |-> TRUE,
   invalidation_reason |-> ""]

\* The unique constraints on data_hash and signature_hash.
UniqueHashes(table, r) ==
  \A id \in DOMAIN table :
    table[id].data_hash # r.data_hash /\ table[id].signature_hash # r.signature_hash

RespondSig(op, code) ==
  response' = [op |-> op, code |-> code] /\ UNCHANGED <<dbvars, authvars, workers>>

create_signature(u, type, rid, data) ==
  /\ sig_clock < MaxSignatures
  /\ LET row == DigitalSignature_insert(NewSignature(u, type, rid, data), sig_clock + 1)
     IN IF UniqueHashes(signatures, row)
        THEN /\ signatures' = (sig_clock + 1 :> row) @@ signatures
             /\ created' = (sig_clock + 1 :> row) @@ created
             /\ RespondSig("create_signature", 201)
        ELSE /\ UNCHANGED <<signatures, created>>
             /\ RespondSig("create_signature", 500)
  /\ sig_clock' = sig_clock + 1
  /\ UNCHANGED verified

\* DigitalSignature.save on a persisted record: ValueError.
signature_save_again(id) ==
  /\ id \in DOMAIN signatures
  /\ RespondSig("DigitalSignature.save", 500)
  /\ UNCHANGED sigvars

\* DigitalSignature.delete is the inherited Model.delete: the row is removed.
signature_delete(id) ==
  /\ id \in DOMAIN signatures
  /\ signatures' = [i \in DOMAIN signatures \ {id} |-> signatures[i]]
  /\ RespondSig("DigitalSignature.delete", 204)
  /\ UNCHANGED <<created, sig_clock, verified>>

verify_integrity(r) ==
  IF sha256(json_dumps(r.signature_data)) # r.data_hash
  THEN [valid |-> FALSE, message |-> "Data hash mismatch"]
  ELSE IF sha256(signature_string(r)) # r.signature_hash
  THEN [valid |-> FALSE, message |-> "Signature hash mismatch"]
  ELSE IF ~r.is_valid
  THEN [valid |-> FALSE, message |-> "Signature invalidated"]
  ELSE [valid |-> TRUE, message |-> "Signature is valid and intact"]

verify_signature(id) ==
  /\ id \in DOMAIN signatures
  /\ verified' = [id |-> id, valid |-> verify_integrity(signatures[id]).valid,
                  message |-> verify_integrity(signatures[id]).message]
  /\ RespondSig("verify_integrity", 200)
  /\ UNCHANGED <<signatures, created, sig_clock>>

\* A change of one stored field made in the database, past the model layer.
SignatureFields ==
  {"signer", "signer_username", "signer_full_name", "signer_role", "signer_email",
   "password_verified_at", "authentication_method", "signature_type",
   "signature_purpose", "signature_timestamp", "signed_model", "signed_record_id",
   "signed_record_description", "data_hash", "signature_data", "signature_hash",
   "ip_address", "user_agent", "is_valid", "invalidation_reason"}

OtherData(data) == CHOOSE d \in SignedData : d # data

TamperValues(r, field) ==
  CASE field = "signer" -> Users \ {r.signer}
    [] field \in {"password_verified_at", "signature_timestamp", "signed_record_id"}
         -> {r[field] + 1}
    [] field = "signature_type" -> {"ACKNOWLEDGE"}
    [] field = "data_hash" -> {sha256(json_dumps(OtherData(r.signature_data)))}
    [] field = "signature_data" -> {OtherData(r.signature_data)}
    [] field = "signature_hash" ->
         {sha256(signature_string(r)),
          sha256(signature_string([r EXCEPT !.signer_username = "nobody"]))}
         \ {r.signature_hash}
    [] field = "is_valid" -> {~r.is_valid}
    [] OTHER -> {"tampered"}

tamper(id, field, value) ==
  /\ id \in DOMAIN signatures
  /\ \A i \in DOMAIN signatures : signatures[i] = created[i]
  /\ value \in TamperValues(signatures[id], field)
  /\ signatures' = [signatures EXCEPT ![id][field] = value]
  /\ RespondSig("tamper", 200)
  /\ UNCHANGED <<created, sig_clock, verified>>

SigNext ==
  \/ \E u \in Users, type \in SignatureTypes, rid \in {1}, data \in SignedData :
       create_signature(u, type, rid, data)
  \/ \E id \in DOMAIN signatures : signature_save_again(id)
  \/ \E id \in DOMAIN signatures : signature_delete(id)
  \/ \E id \in DOMAIN signatures : verify_signature(id)
  \/ \E id \in DOMAIN signatures, field \in SignatureFields :
       \E value \in TamperValues(signatures[id], field) : tamper(id, field, value)

SpecSig == Init /\ [][SigNext]_vars

\* ------------------------------------------------------------ properties
\* The number of ledger entries, copies counted, with this action on this
\* Request.
AuditCount(action, rid) ==
  BagCardinality([e \in {x \in BagToSet(audit) :
                           x.action = action /\ x.request_id = rid} |-> audit[e]])

SignatureCount(type, rid) ==
  Cardinality({id \in DOMAIN signatures :
                 /\ signatures[id].signature_type = type
                 /\ signatures[id].signed_model = "Request"
                 /\ signatures[id].signed_record_id = rid})

\* The states and the edges of each request type's state machine.
TypeStates(type) ==
  IF type = "Withdrawal"
  THEN {"Pending", "Sent Back", "Approved", "Issued", "Returned", "Rejected"}
  ELSE {"Pending", "Sent Back", "Approved", "Completed", "Rejected"}

LegalEdges(type) ==
  {<<"Pending", "Approved">>, <<"Pending", "Rejected">>, <<"Sent Back", "Rejected">>,
   <<"Pending", "Sent Back">>, <<"Sent Back", "Pending">>}
  \cup (IF type = "Withdrawal"
        THEN {<<"Approved", "Issued">>, <<"Issued", "Returned">>}
        ELSE {<<"Approved", "Completed">>})

\* C1: every Request's status is one of the states of its type, and every
\* change of status is a legal edge of that type's state machine.
C1_LegalTransitions ==
  [][\A i \in DOMAIN requests' :
       /\ requests'[i].status \in TypeStates(requests'[i].request_type)
       /\ (i \in DOMAIN requests /\ requests[i].status # requests'[i].status)
            => <<requests[i].status, requests'[i].status>>
                 \in LegalEdges(requests[i].request_type)]_vars

OpenWithdrawal(c) ==
  \E i \in DOMAIN requests :
    /\ requests[i].request_type = "Withdrawal"
    /\ requests[i].crate = c
    /\ requests[i].status \in {"Pending", "Approved", "Issued"}

\* C3: a Crate is Withdrawn exactly when a Withdrawal Request on it is
\* Pending, Approved or Issued.
C3_WithdrawnIffOpenWithdrawal ==
  \A c \in DOMAIN crates : crates[c].status = "Withdrawn" <=> OpenWithdrawal(c)

\* C4: a Destroyed Crate never changes again, neither status nor storage.
C4_DestroyedIsTerminal ==
  [][\A c \in DOMAIN crates :
       crates[c].status = "Destroyed" => crates'[c] = crates[c]]_vars

\* C5: the ledger only grows and no entry of it changes; a second save and a
\* delete of a persisted entry raise, and the admin site refuses both.
C5_LedgerAppendOnly ==
  [][/\ audit \sqsubseteq audit'
     /\ response'.op \in {"AuditTrail.save", "AuditTrail.delete"}
          => (response'.code = 500 /\ audit' = audit)
     /\ response'.op = "AuditTrailAdmin"
          => (response'.code = 403 /\ audit' = audit)]_vars

C5_Witness ==
  /\ response = [op |-> "AuditTrail.delete", code |-> 500]
  /\ BagCardinality(audit) >= 2

\* C9: an approved Request has exactly one 'Approved' ledger entry and exactly
\* one APPROVE signature record.
C9_ApproveOnce ==
  \A r \in DOMAIN requests :
    requests[r].approved_by # NoUser
      => (AuditCount("Approved", r) = 1 /\ SignatureCount("APPROVE", r) = 1)

\* C6: every update attempt and every delete attempt on a persisted
\* signature record fails and leaves the record present and unchanged.
C6_SignatureImmutable ==
  [][response'.op \in {"DigitalSignature.save", "DigitalSignature.delete"}
       => (response'.code = 500 /\ signatures' = signatures)]_vars

\* C7: the record create_signature returns verifies as valid.
C7_VerifyAfterSign ==
  [][\A id \in DOMAIN signatures' \ DOMAIN signatures :
       verify_integrity(signatures'[id]).valid]_vars

\* C8: after a change of any single stored field of a record,
\* verify_integrity returns invalid.
C8_TamperDetected ==
  [][\A id \in DOMAIN signatures :
       (response'.op = "tamper" /\ id \in DOMAIN signatures'
          /\ signatures'[id] # signatures[id])
         => ~verify_integrity(signatures'[id]).valid]_vars

\* C2: of the AllocateStorage calls on one Request exactly one succeeds: the
\* ledger has one 'Allocated' entry for the Request.
C2_SingleAllocation ==
  \A r \in DOMAIN requests : AuditCount("Allocated", r) <= 1

\* C10: of the Approve and Reject calls on one Request exactly one takes
\* effect: the ledger has one entry for the decision.
C10_SingleDecision ==
  \A r \in DOMAIN requests :
    AuditCount("Approved", r) + AuditCount("Rejected", r) <= 1

\* C11: a call that ends in an error leaves no Crate, Request, SendBack or
\* ledger row behind, and a step that changes a Request or a Crate also
\* appends to the ledger.
C11_AllOrNothing ==
  [][/\ response'.code = 500
          => (crates' = crates /\ requests' = requests
              /\ sendbacks' = sendbacks /\ audit' = audit)
     /\ (requests' # requests \/ crates' # crates) => audit' # audit]_vars

\* The calls that are workflow transitions, by the name they answer under.
TransitionOps ==
  {"create_storage", "create_withdrawal", "create_destruction", "approve",
   "reject", "send_back", "allocate", "issue", "return", "confirm_destruction",
   "update"}

\* C12: every successful transition creates exactly one signature record, for
\* a Request.
C12_SignaturePerTransition ==
  [][(response'.op \in TransitionOps /\ response'.code \in {200, 201})
       => /\ Len(signatures') = Len(signatures) + 1
          /\ signatures'[Len(signatures')].signed_model = "Request"]_vars

\* The successful workflow actions, relocation included.
WorkflowDone ==
  /\ response'.op \in TransitionOps \cup {"relocate"}
  /\ response'.code \in {200, 201}

\* The number of ledger rows the step appends.
Appended == BagCardinality(audit') - BagCardinality(audit)

\* C13, as stated: each successful workflow action appends exactly one audit
\* entry.
C13_OneEntryPerAction ==
  [][WorkflowDone => Appended = 1]_vars

\* C13, amended: each successful workflow action appends one audit entry for
\* the action, and withdrawal creation, return and the rejection that gives
\* the Crate back append one more for the change of the Crate.
C13_EntriesPerAction ==
  [][WorkflowDone =>
       Appended = (IF response'.op \in {"create_withdrawal", "return"} THEN 2
                   ELSE IF response'.op = "reject" /\ crates' # crates THEN 2
                   ELSE 1)]_vars

C13_Witness ==
  /\ response = [op |-> "return", code |-> 200]
  /\ \E r \in DOMAIN requests : requests[r].status = "Returned"

\* The calls of user u that carry the credential pw.
CallWith(u, pw) ==
  \/ \E documents \in Submissions : create_storage_request(u, pw, documents)
  \/ \E c \in CrateInputs : create_withdrawal_request(u, pw, c)
  \/ \E c \in CrateInputs : create_destruction_request(u, pw, c)
  \/ \E pk \in PkInputs : approve_request(u, pw, pk)
  \/ \E pk \in PkInputs : reject_request(u, pw, pk)
  \/ \E pk \in PkInputs : send_back_request(u, pw, pk)
  \/ \E pk \in PkInputs, s \in StorageInputs : allocate_storage(u, pw, pk, s)
  \/ \E pk \in PkInputs : issue_documents(u, pw, pk)
  \/ \E pk \in PkInputs, s \in StorageInputs, reason \in BOOLEAN :
       return_documents(u, pw, pk, s, reason)
  \/ \E pk \in PkInputs : confirm_destruction(u, pw, pk)
  \/ \E pk \in PkInputs, type \in RequestTypes, documents \in Submissions :
       update_request(type, u, pw, pk, documents)
  \/ \E c \in CrateInputs, s \in StorageInputs : relocate(u, pw, c, s)

\* C14: a state-changing call whose re-entered credential is missing or wrong
\* fails and creates or changes no Request and no Crate.
C14_CredentialRequired ==
  [][\A u \in Users, pw \in {"bad", "missing"} :
       CallWith(u, pw) => (response'.code \notin {200, 201}
                           /\ crates' = crates /\ requests' = requests)]_vars

\* The calls of account u that need the capability `codename`.
CallNeeding(u, codename) ==
  \E pw \in Passwords :
    CASE codename = "create_request" ->
           \E documents \in Submissions : create_storage_request(u, pw, documents)
      [] codename = "approve_request" ->
           \E pk \in PkInputs : \/ approve_request(u, pw, pk)
                                \/ reject_request(u, pw, pk)
                                \/ send_back_request(u, pw, pk)
      [] codename = "allocate_storage" ->
           \E pk \in PkInputs, s \in StorageInputs : allocate_storage(u, pw, pk, s)

\* C15: a call of an account that is no superuser and whose role does not
\* grant the capability is refused and changes nothing.
C15_PrivilegeRequired ==
  [][\A u \in AllUsers :
       \A codename \in {"create_request", "approve_request", "allocate_storage"} :
         (~is_superuser(u) /\ codename \notin RolePrivileges[u]
          /\ CallNeeding(u, codename))
           => (response'.code = 403 /\ crates' = crates /\ requests' = requests
               /\ sendbacks' = sendbacks /\ audit' = audit)]_vars

\* The Requests of one type on Crate c that are not in a terminal state.
OpenRequests(c, type) ==
  {r \in DOMAIN requests :
     /\ requests[r].crate = c
     /\ requests[r].request_type = type
     /\ requests[r].status \in {"Pending", "Sent Back", "Approved", "Issued"}}

\* C16: for each Crate and each request type at most one Request of that type
\* on that Crate is open.
C16_OneOpenRequestPerType ==
  \A c \in DOMAIN crates : \A type \in RequestTypes :
    Cardinality(OpenRequests(c, type)) <= 1

\* C17: of the Withdrawal request creations on one Crate at most one
\* succeeds: a Crate never has two open Withdrawal requests.
C17_SingleOpenWithdrawal ==
  \A c \in DOMAIN crates : Cardinality(OpenRequests(c, "Withdrawal")) < 2

\* C18: when the Crate creations of one (unit, department, section, year)
\* have all ended, each of them has succeeded and the barcodes of the N
\* crates carry the numbers 1..N, each once.
C18_GaplessBarcodes ==
  (\A w \in Workers : workers[w].pc = "idle")
    => /\ \A w \in Workers : workers[w].op = "crate_create" => workers[w].code = 201
       /\ \A n \in 1..Len(crates) :
            Cardinality({c \in DOMAIN crates : crates[c].barcode = Barcode(n)}) = 1

\* C19: a Crate that has its final barcode keeps it in every later state.
C19_BarcodeImmutable ==
  [][\A c \in DOMAIN crates :
       crates[c].barcode.prefix = Prefix => crates'[c].barcode = crates[c].barcode]_vars

\* C20: a Storage request is created Pending, with an Active Crate that
\* holds the documents of the call; AllocateStorage on an Approved request
\* with an existing storage location L leaves the Request Completed, the
\* Crate with the status it had (Active stays Active) and with L as its
\* storage; AllocateStorage on a request that is not Approved is refused and
\* changes nothing.
C20_StorageScenario ==
  [][/\ (response'.op = "create_storage" /\ response'.code = 201)
          => \A u \in Users, pw \in Passwords, documents \in Submissions :
               create_storage_request(u, pw, documents)
                 => /\ Len(requests') = Len(requests) + 1
                    /\ Len(crates') = Len(crates) + 1
                    /\ requests'[Len(requests')].request_type = "Storage"
                    /\ requests'[Len(requests')].status = "Pending"
                    /\ requests'[Len(requests')].crate = Len(crates')
                    /\ crates'[Len(crates')].status = "Active"
                    /\ crates'[Len(crates')].documents = documents
     /\ response'.op = "allocate"
          => \A u \in Users, pw \in Passwords, pk \in DOMAIN requests, L \in StorageInputs :
               allocate_storage(u, pw, pk, L)
                 => IF requests[pk].status # "Approved"
                    THEN /\ response'.code \notin {200, 201}
                         /\ crates' = crates /\ requests' = requests
                         /\ sendbacks' = sendbacks /\ audit' = audit
                    ELSE (response'.code = 200 /\ L \in Storages)
                           => /\ requests'[pk].status = "Completed"
                              /\ crates'[requests[pk].crate].status
                                   = crates[requests[pk].crate].status
                              /\ crates'[requests[pk].crate].storage = L]_vars

C20_Witness ==
  /\ response = [op |-> "allocate", code |-> 200]
  /\ \E pk \in DOMAIN requests :
       /\ requests[pk].request_type = "Storage"
       /\ requests[pk].status = "Completed"
       /\ requests[pk].approved_by # NoUser
       /\ crates[requests[pk].crate].status = "Active"
       /\ crates[requests[pk].crate].storage \in Storages
       /\ crates[requests[pk].crate].documents = {"D1", "D2"}

\* C21: a Withdrawal request created on an Active or Archived Crate leaves
\* the Crate Withdrawn in the same step and the Request Pending; on a Crate
\* in another status the creation is refused and changes nothing; the
\* rejection of a Pending or Sent Back Withdrawal request leaves the Request
\* Rejected and its Crate Active.
C21_WithdrawalCreation ==
  [][response'.op = "create_withdrawal"
       => \A u \in Users, pw \in Passwords, c \in DOMAIN crates :
            create_withdrawal_request(u, pw, c)
              => IF crates[c].status \in {"Active", "Archived"}
                 THEN response'.code = 201
                        => /\ crates'[c].status = "Withdrawn"
                           /\ Len(requests') = Len(requests) + 1
                           /\ requests'[Len(requests')].request_type = "Withdrawal"
                           /\ requests'[Len(requests')].status = "Pending"
                           /\ requests'[Len(requests')].crate = c
                 ELSE /\ response'.code \notin {200, 201}
                      /\ crates' = crates /\ requests' = requests]_vars

C21_RejectRestores ==
  [][\A pk \in Request_objects :
       (/\ requests[pk].request_type = "Withdrawal"
        /\ requests[pk].status # "Rejected"
        /\ requests'[pk].status = "Rejected")
         => /\ requests[pk].status \in {"Pending", "Sent Back"}
            /\ crates'[requests[pk].crate].status = "Active"]_vars

C21_WithdrawalScenario == C21_WithdrawalCreation /\ C21_RejectRestores

\* C23: no step removes a Crate or a Request, and the status and the
\* storage of a Crate change only in a step of a workflow handler or of
\* relocate, which are the steps that give a response.
C23_NothingDeleted ==
  [][/\ \A c \in Crate_objects : c \in DOMAIN crates' /\ crates'[c] # DeletedCrate
     /\ \A pk \in Request_objects : pk \in DOMAIN requests' /\ requests'[pk] # DeletedRequest
     /\ \A c \in Crate_objects :
          (crates'[c].status # crates[c].status \/ crates'[c].storage # crates[c].storage)
            => workers' = workers]_vars

\* C22: IssueDocuments on an Approved Withdrawal request leaves the Request
\* Issued and its Crate Withdrawn; ReturnDocuments with the destination X on
\* the Issued request leaves the Request Returned, the Crate Active and the
\* storage of the Crate X.
C22_IssueThenReturn ==
  [][/\ (response'.op = "issue" /\ response'.code = 200)
          => \A u \in Users, pw \in Passwords, pk \in Request_objects :
               issue_documents(u, pw, pk)
                 => /\ requests[pk].request_type = "Withdrawal"
                    /\ requests[pk].status = "Approved"
                    /\ requests'[pk].status = "Issued"
                    /\ crates'[requests[pk].crate].status = "Withdrawn"
     /\ (response'.op = "return" /\ response'.code = 200)
          => \A u \in Users, pw \in Passwords, pk \in Request_objects,
                X \in StorageInputs, reason \in BOOLEAN :
               return_documents(u, pw, pk, X, reason)
                 => /\ requests[pk].request_type = "Withdrawal"
                    /\ requests[pk].status = "Issued"
                    /\ requests'[pk].status = "Returned"
                    /\ crates'[requests[pk].crate].status = "Active"
                    /\ crates'[requests[pk].crate].storage = X]_vars

C22_Witness ==
  /\ response = [op |-> "return", code |-> 200]
  /\ \E pk \in Request_objects :
       /\ requests[pk].request_type = "Withdrawal"
       /\ requests[pk].status = "Returned"
       /\ requests[pk].approved_by # NoUser
       /\ requests[pk].issued_by # NoUser
       /\ crates[requests[pk].crate].status = "Active"
       /\ crates[requests[pk].crate].storage \in Storages

\* C24: a decision or a storage step during which the broadcast or the
\* notification fails is the step the handler makes when they succeed: the
\* same Request, Crate, send-back records and ledger, and the same response.
C24_CollaboratorFailure ==
  [][response'.op \in {"approve", "reject", "allocate", "return"}
       => \A u \in Users, pk \in Request_objects, broadcast \in Outcomes, notify \in Outcomes :
            /\ approve_request_with(u, pk, broadcast, notify)
                 => approve_request(u, "good", pk)
            /\ reject_request_with(u, pk, broadcast, notify)
                 => reject_request(u, "good", pk)
            /\ \A storage \in Storages :
                 /\ allocate_storage_with(u, pk, storage, broadcast, notify)
                      => allocate_storage(u, "good", pk, storage)
                 /\ \A reason \in BOOLEAN :
                      return_documents_with(u, pk, storage, reason, broadcast, notify)
                        => return_documents(u, "good", pk, storage, reason)]_vars

C24_Witness ==
  /\ response = [op |-> "reject", code |-> 200]
  /\ \E pk \in Request_objects :
       /\ requests[pk].request_type = "Withdrawal"
       /\ requests[pk].status = "Rejected"
       /\ crates[requests[pk].crate].status = "Active"
       /\ AuditCount("Rejected", pk) = 1

\* C25: Approve, Reject and SendBack on a Request that is neither Pending nor
\* Sent Back are refused (400 for a caller who passed the permission and the
\* password check) and leave the Request, the Crates, the send-back records
\* and the ledger as they were; a Request that is Rejected, Returned or
\* Completed is not changed by any step.
C25_DecisionGuards ==
  [][/\ response'.op \in {"approve", "reject", "send_back"}
          => \A u \in Users, pw \in Passwords, pk \in Request_objects :
               (/\ requests[pk].status \notin {"Pending", "Sent Back"}
                /\ \/ approve_request(u, pw, pk)
                   \/ reject_request(u, pw, pk)
                   \/ send_back_request(u, pw, pk))
                 => /\ response'.code \notin {200, 201}
                    /\ (permission_class(u, "approve_request") /\ pw = "good")
                         => response'.code = 400
                    /\ crates' = crates /\ requests' = requests
                    /\ sendbacks' = sendbacks /\ audit' = audit
     /\ \A pk \in Request_objects :
          requests[pk].status \in {"Rejected", "Returned", "Completed"}
            => requests'[pk] = requests[pk]]_vars

C25_Witness ==
  /\ response = [op |-> "reject", code |-> 400]
  /\ Request_objects # {}
  /\ \A pk \in Request_objects : requests[pk].status \in {"Approved", "Completed"}
  /\ \E pk \in Request_objects : requests[pk].status = "Completed"

C27_ConfirmDestruction ==
  [][/\ (response'.op = "confirm_destruction" /\ response'.code # 200)
          => (crates' = crates /\ requests' = requests)
     /\ (response'.op = "confirm_destruction" /\ response'.code = 200)
          => \A u \in Users, pw \in Passwords, pk \in PkInputs :
               confirm_destruction(u, pw, pk)
                 => /\ pk \in Request_objects
                    /\ requests[pk].request_type = "Destruction"
                    /\ requests[pk].status = "Approved"
                    /\ requests'[pk].status = "Completed"
                    /\ crates'[requests[pk].crate].status = "Destroyed"
                    /\ crates'[requests[pk].crate].storage
                         = crates[requests[pk].crate].storage]_vars

C27_Witness ==
  /\ response.op = "confirm_destruction" /\ response.code = 200
  /\ \E pk \in Request_objects :
       /\ requests[pk].request_type = "Destruction"
       /\ requests[pk].status = "Completed"
       /\ crates[requests[pk].crate].status = "Destroyed"
       /\ crates[requests[pk].crate].storage \in Storages

\* C28: a resubmission succeeds only on a request that is Sent Back and of the
\* type of the endpoint; it sets the request Pending and, for Storage, replaces
\* the documents of the crate by those of the call; a Pending request leaves
\* Pending only through approve, reject or send back; a resubmission that does
\* not succeed leaves the Requests and the Crates as they were.  The loop
\* send back / resubmit carries no counter (C28_Witness: its second turn).
C28_Resubmit ==
  [][/\ (response'.op = "update" /\ response'.code # 200)
          => (crates' = crates /\ requests' = requests)
     /\ (response'.op = "update" /\ response'.code = 200)
          => \A type \in RequestTypes, u \in Users, pw \in Passwords, pk \in PkInputs,
                documents \in Submissions :
               update_request(type, u, pw, pk, documents)
                 => /\ pk \in Request_objects
                    /\ requests[pk].status = "Sent Back"
                    /\ requests[pk].request_type = type
                    /\ requests'[pk].status = "Pending"
                    /\ type = "Storage"
                         => crates'[requests[pk].crate].documents = documents
     /\ \A pk \in DOMAIN requests :
          (requests[pk].status = "Pending" /\ requests'[pk].status # "Pending")
            => /\ response'.op \in {"approve", "reject", "send_back"}
               /\ requests'[pk].status \in {"Approved", "Rejected", "Sent Back"}]_vars

C28_Witness ==
  /\ response = [op |-> "update", code |-> 200]
  /\ \E pk \in Request_objects :
       /\ requests[pk].status = "Pending"
       /\ \E sb \in BagToSet(sendbacks) :
            sb.request = pk /\ CopiesIn(sb, sendbacks) >= 2
       /\ \E e \in BagToSet(audit) :
            /\ e.action = "Updated" /\ e.crate_id = requests[pk].crate
            /\ CopiesIn(e, audit) >= 2

\* C29: concurrent return_documents calls on one Issued request are
\* serialized, so that exactly one of them succeeds: no request is returned
\* twice.
C29_ReturnSerialized ==
  \A pk \in Request_objects : AuditCount("Returned", pk) <= 1

\* C30: a workflow action that is refused (wrong status, failed password
\* re-entry, unknown request or storage) still appends an entry to the
\* ledger.
C30_RefusalAudited ==
  [][(/\ response'.op \in {"approve", "reject", "send_back", "allocate", "issue",
                           "return", "confirm_destruction", "update"}
      /\ response'.code \in {400, 404})
       => BagCardinality(audit') > BagCardinality(audit)]_vars

\* The entries of the ledger that the step adds.
NewEntries == {e \in BagToSet(audit') : CopiesIn(e, audit') > CopiesIn(e, audit)}

\* C31: a login call with a username and a password appends exactly one
\* entry: 'Login' when it succeeds, 'LoginFailed' otherwise; for an unknown
\* username the entry has no user and carries the submitted username; tokens
\* are in the response only together with a 'Login' entry.
C31_LoginAudited ==
  [][\A username \in {"user", UnknownUsername}, password \in {"good", "bad"} :
       login(username, password)
         => /\ Appended = 1
            /\ \A e \in NewEntries :
                 /\ e.action = IF response'.code = 200 THEN "Login" ELSE "LoginFailed"
                 /\ username \notin DOMAIN accounts
                      => (e.user = NoUser /\ e.attempted_username = username)
                 /\ username \in DOMAIN accounts => e.user = username
                 /\ response'.access # NoUser <=> e.action = "Login"]_vars

C31_Witness ==
  /\ response = [op |-> "login", code |-> 401, access |-> NoUser]
  /\ \E e \in BagToSet(audit) :
       /\ e.action = "LoginFailed" /\ e.user = NoUser
       /\ e.attempted_username = UnknownUsername
  /\ \E e \in BagToSet(audit) : e.action = "Login"
  /\ \E e \in BagToSet(audit) : e.action = "LoginFailed" /\ e.reason = "Account status"
  /\ \E e \in BagToSet(audit) : e.action = "LoginFailed" /\ e.reason = "Account is locked"

C33_RelocationApplied ==
  [][response'.op = "relocate"
       => \A u \in Users, c \in CrateInputs, s \in Storages :
            (/\ relocate(u, "good", c, s)
             /\ permission_class(u, "allocate_storage")
             /\ c \in Crate_objects
             /\ crates[c].status \in {"Active", "Archived"})
              => /\ response'.code = 200
                 /\ crates'[c].storage = s
                 /\ crates'[c].status = crates[c].status]_vars

\* C34: a storage committed on a Crate while a withdrawal creation on the
\* same Crate is in flight is not lost: the save of the creation changes
\* the status and leaves the storage as it finds it in the database.
C34_StorageNotWrittenBack ==
  [][\A w \in Workers :
       (workers[w].pc = "create_withdrawal" /\ withdrawal_commit(w))
         => crates'[workers[w].req.crate].storage
              = crates[workers[w].req.crate].storage]_vars

\* C35: a request becomes Approved only from Pending; approve on a Sent Back
\* request fails and changes nothing; a Sent Back request becomes Pending
\* only through the resubmission by its requester; reject and send back by
\* an approver are accepted on Pending and on Sent Back.
C35_ApproveFromPending ==
  [][/\ \A pk \in DOMAIN requests :
          /\ (requests'[pk].status = "Approved" /\ requests[pk].status # "Approved")
               => (requests[pk].status = "Pending" /\ response'.op = "approve")
          /\ (requests[pk].status = "Sent Back" /\ requests'[pk].status = "Pending")
               => /\ response'.op = "update"
                  /\ \A type \in RequestTypes, u \in Users, documents \in Submissions :
                       update_request(type, u, "good", pk, documents)
                         => u = requests[pk].withdrawn_by
     /\ response'.op = "approve"
          => \A u \in Users, pw \in Passwords, pk \in PkInputs :
               (/\ approve_request(u, pw, pk)
                /\ pk \in Request_objects
                /\ requests[pk].status = "Sent Back")
                 => /\ response'.code \in {400, 403}
                    /\ (u = "head" /\ pw = "good") => response'.code = 400
                    /\ requests' = requests /\ crates' = crates
     /\ response'.op = "reject"
          => \A pk \in PkInputs :
               (/\ reject_request("head", "good", pk)
                /\ pk \in Request_objects
                /\ requests[pk].status \in {"Pending", "Sent Back"})
                 => (response'.code = 200 /\ requests'[pk].status = "Rejected")
     /\ response'.op = "send_back"
          => \A pk \in PkInputs :
               (/\ send_back_request("head", "good", pk)
                /\ pk \in Request_objects
                /\ requests[pk].status \in {"Pending", "Sent Back"})
                 => (response'.code = 200 /\ requests'[pk].status = "Sent Back")]_vars

C35_Witness ==
  /\ response = [op |-> "approve", code |-> 200]
  /\ \E pk \in Request_objects :
       /\ requests[pk].status = "Approved"
       /\ \E sb \in BagToSet(sendbacks) :
            sb.request = pk /\ sb.sendback_type = "Change Request"
       /\ \E e \in BagToSet(audit) :
            e.action = "Updated" /\ e.crate_id = requests[pk].crate

\* C36: the resubmission of a Sent Back request by an account that is not
\* its requester is refused, with 403 when the account may create requests,
\* and leaves the Requests and the Crates, their documents included, as
\* they were.
C36_RequesterOnly ==
  [][response'.op = "update"
       => \A type \in RequestTypes, u \in Creators, pk \in PkInputs,
             documents \in Submissions :
            (/\ update_request(type, u, "good", pk, documents)
             /\ pk \in Request_objects
             /\ requests[pk].status = "Sent Back"
             /\ requests[pk].withdrawn_by # u)
              => /\ response'.code = 403
                 /\ requests' = requests /\ crates' = crates]_vars

C36_Witness ==
  /\ response = [op |-> "update", code |-> 403]
  /\ \E pk \in Request_objects :
       requests[pk].status = "Sent Back" /\ requests[pk].request_type = "Storage"

\* C37: a Request that is Approved, Issued, Returned or Completed has its
\* approver and approval date; a Withdrawal that is Issued or Returned has
\* its issuer and issue date, and a Returned one its return date; a Storage
\* request that is Completed has its allocator and allocation date, and its
\* Crate has a storage.
C37_RecordedActors ==
  \A pk \in Request_objects :
    LET req == requests[pk]
    IN /\ req.status \in {"Approved", "Issued", "Returned", "Completed"}
            => (req.approved_by # NoUser /\ req.approval_date # NoDate)
       /\ (req.request_type = "Withdrawal" /\ req.status \in {"Issued", "Returned"})
            => (req.issued_by # NoUser /\ req.issue_date # NoDate)
       /\ (req.request_type = "Withdrawal" /\ req.status = "Returned")
            => req.return_date # NoDate
       /\ (req.request_type = "Storage" /\ req.status = "Completed")
            => /\ req.allocated_by # NoUser /\ req.allocation_date # NoDate
               /\ crates[req.crate].storage # NoStorage

\* C38: at most one PasswordPolicy row and at most one SessionPolicy row
\* exist, also when two updates run at once before any row exists, and the
\* stored password expiry is between 1 and 90 days.
C38_SinglePolicyRow ==
  /\ Len(policies.password) <= 1
  /\ Len(policies.session) <= 1
  /\ \A i \in DOMAIN policies.password :
       policies.password[i] >= 1 /\ policies.password[i] <= 90

====
